---- MODULE Spec2Model ----
(***************************************************************************)
(* NXP LIBUSBSIO host library (src/src/lpcusbsio.c): the request/response  *)
(* engine SIO_SendRequest, the bus operations built on it and the threads  *)
(* that call them.  One thread step is one lock, one hid_write, one        *)
(* hid_read_timeout or one unlock of the C code.                           *)
(***************************************************************************)
EXTENDS Integers, Sequences, FiniteSets, TLC

(***************************************************************************)
(* Protocol constants.  lpcusbsio_protocol.h is not part of the sources,   *)
(* the values are the ones the specification gives.                        *)
(***************************************************************************)
HID_SIO_PACKET_SZ == 64

HID_SIO_PACKET_DATA_SZ == 60

HID_SIO_PACKET_HEADER_SZ == HID_SIO_PACKET_SZ - HID_SIO_PACKET_DATA_SZ

HID_SIO_RES_OK == 0

\* sizeof(HID_I2C_RW_PARAMS_T): {length (16 bit), options, slaveAddr}
I2C_RW_PARAMS_SZ == 4

\* sizeof(HID_SPI_XFER_PARAMS_T): {length (16 bit), options, device}
SPI_XFER_PARAMS_SZ == 4

\* sizeof(HID_I2C_XFER_PARAMS_T): {txLength, rxLength, options, slaveAddr},
\* 16 bit each as in I2C_FAST_XFER_T
I2C_XFER_PARAMS_SZ == 8

\* frames needed for n payload bytes: the write loop runs at least once
NumFrames(n) ==
    IF n = 0 THEN 1
    ELSE (n + HID_SIO_PACKET_DATA_SZ - 1) \div HID_SIO_PACKET_DATA_SZ

\* total transfer length: the payload plus one header per frame, the value
\* at which the completion identity of the last frame holds
HID_SIO_CALC_TRANSFER_LEN(n) ==
    n + NumFrames(n) * HID_SIO_PACKET_HEADER_SZ

(***************************************************************************)
(* Error codes, include/lpcusbsio.h                                        *)
(***************************************************************************)
LPCUSBSIO_OK == 0

LPCUSBSIO_ERR_HID_LIB == -1

LPCUSBSIO_ERR_BAD_HANDLE == -2

LPCUSBSIO_ERR_SYNCHRONIZATION == -3

LPCUSBSIO_ERR_MEM_ALLOC == -4

LPCUSBSIO_ERR_MUTEX_CREATE == -5

LPCUSBSIO_ERR_TIMEOUT == -32

LPCUSBSIO_ERR_INVALID_PARAM == -34

MAX_FWVER_STRLEN == 60

MAX_I2C_PORTS == 8

MAX_SPI_PORTS == 8

(***************************************************************************)
(* Bounds of the model                                                     *)
(***************************************************************************)
\* hid_read_timeout calls of one exchange that do not end it
MaxReads == 3

\* exchanges started on one session in one behaviour
MaxExch == 2

\* largest payload of the codec round trip (the session's maxDataSize)
MaxPayload == 125

\* largest buffer handed to I2C_DeviceWrite when the framing is checked
MaxWrite == 300

Threads == {"t1", "t2"}

NoThread == "none"

\* session identities: a session is named by the device it is opened on
Devs == {1, 2}

\* bytes of the caller's buffer before the call
UserFill == 170

Byte(i) == (i * 37 + 11) % 256

RespByte(i) == (i * 41 + 5) % 256

Min(a, b) == IF a < b THEN a ELSE b

Max(a, b) == IF a < b THEN b ELSE a

VARIABLES
    g_lastError,   \* static int32_t g_lastError
    devList,       \* g_Ctrl.devList: the live sessions, newest first
    transId,       \* dev->transId, 8 bit
    maxDataSize,   \* dev->maxDataSize
    sioMutex,      \* dev->sioMutex: the thread that holds it, or NoThread
    outPacket,     \* dev->outPacket seen through HID_SIO_OUT_REPORT_T
    i2cPorts,      \* dev->i2cPorts[]: hUsbSio back-reference and portNum
    spiPorts,      \* dev->spiPorts[]
    th,            \* per thread: position in the code, arguments and locals
    wire,          \* per session: the last two transport calls (history)
    nexch,         \* per session: exchanges it may still start (bounded)
    hidDev,        \* dev->hidDev: is the transport handle open
    maxI2CPorts,   \* dev->maxI2CPorts
    maxSPIPorts,   \* dev->maxSPIPorts
    maxGPIOPorts,  \* dev->maxGPIOPorts
    fwBuild,       \* dev->fwBuild
    devInfoList,   \* g_Ctrl.devInfoList: the cached discovery list
    g_hidapiEnums, \* the outstanding enumeration cursors, newest first
    hidInit,       \* the HID library is initialised (hid_exit not called)
    released,      \* what was live at the last releases (history)
    gpioPins       \* the bridge's GPIO port values, as the device holds them

vars == <<g_lastError, devList, transId, maxDataSize, sioMutex, outPacket,
          i2cPorts, spiPorts, th, wire, nexch, hidDev, maxI2CPorts,
          maxSPIPorts, maxGPIOPorts, fwBuild, devInfoList, g_hidapiEnums, hidInit,
          released, gpioPins>>

\* the sessions and what the library keeps beside them
library == <<devList, maxDataSize, i2cPorts, spiPorts, hidDev, maxI2CPorts,
             maxSPIPorts, maxGPIOPorts, fwBuild, devInfoList, g_hidapiEnums, hidInit,
             released>>

registry == <<library, gpioPins>>


(***************************************************************************)
(* Values                                                                  *)
(***************************************************************************)
NullDev == 0

ZeroData == [i \in 1..HID_SIO_PACKET_DATA_SZ |-> 0]

\* a report as HID_SIO_OUT_REPORT_T / HID_SIO_IN_REPORT_T lay it out; the
\* third header byte is req in an out report and resp in an in report
ZeroPacket ==
    [transId |-> 0, sesId |-> 0, req |-> "0", resp |-> 0, transfer_len |-> 0,
     packet_num |-> 0, packet_len |-> 0, data |-> ZeroData]

NoEvent ==
    [thr |-> NoThread, tid |-> -1, kind |-> "-", num |-> 0,
     first |-> FALSE, last |-> TRUE]

ClosedPort == [hUsbSio |-> NullDev, portNum |-> 0]

\* char fwBuild[MAX_FWVER_STRLEN] after memset(dev, 0, ...): the empty string
NoString == <<>>

\* the text is left empty
g_fwInitVer_mut == NoString

\* line 98: the text of a session whose device-info exchange failed
g_fwInitVer == <<"FW Ver Unavailable">>

\* the bytes of a C string: up to the first NUL
RECURSIVE CString(_)
CString(b) ==
    IF b = <<>> THEN <<>>
    ELSE IF b[1] = 0 THEN <<>>
    ELSE <<b[1]>> \o CString(Tail(b))

\* lines 624-632: "FW %d.%d %s" of fwVersion >> 16, fwVersion & 0xFFFF and
\* the text that follows the twelve bytes of numbers
FwString(inData) ==
    <<"FW ", inData[11] + 256 * inData[12], ".",
      inData[9] + 256 * inData[10], " ",
      CString(SubSeq(inData, 13, Len(inData)))>>

\* GPIO ports of the bridge
GpioPorts == {0}

\* nothing was released yet
NoRelease ==
    [list |-> [done |-> FALSE, sessions |-> 0, cursors |-> 0, by |-> "-"],
     lib |-> [done |-> FALSE, sessions |-> 0, cursors |-> 0, by |-> "-"]]

\* a port handle is the address of a slot: the session and the slot's index
\* counted from &i2cPorts[0]; the SPI table follows the I2C table
I2CHandle(d, n) == [dev |-> d, adr |-> n]

SPIHandle(d, n) == [dev |-> d, adr |-> MAX_I2C_PORTS + n]

NoHandle == [dev |-> NullDev, adr |-> 0]

\* the last GPIO call a thread made before the present one (history)
NoPrev ==
    [op |-> "-", d |-> NullDev, port |-> 0, pin |-> 0, ret |-> 0,
     h |-> [dev |-> NullDev, adr |-> 0]]

\* a uint32_t as the four bytes memcpy moves, least significant first
Zero32 == <<0, 0, 0, 0>>

\* the outcome of a read through a null pointer: the process is killed
Fault == -99

IdleThread ==
    [pc |-> "idle", op |-> "-", d |-> NullDev, h |-> NoHandle, portNum |-> 0,
     req |-> "0", outNull |-> TRUE, outData |-> <<>>, outDataLen |-> 0,
     outLen |-> 0, off |-> 0,
     inNull |-> TRUE, inData |-> <<>>, inLenNull |-> TRUE, inLen |-> 0,
     res |-> 0, size |-> 0, buffer |-> <<>>, ret |-> 0,
     tid |-> -1, acq |-> FALSE, sent |-> <<>>, rcvd |-> <<>>,
     afterTmo |-> FALSE,
     pin |-> 0, status |-> Zero32, txSz |-> 0, addr |-> 0,
     bufNull |-> FALSE, txNull |-> FALSE, id0 |-> 0,
     hs |-> NullDev, live |-> FALSE, cap |-> 0, enum |-> <<>>, idx |-> 0, openAtCall |-> {},
     deinit |-> <<>>, overlap |-> FALSE, prev |-> NoPrev, next |-> <<>>]

(***************************************************************************)
(* Helpers of the library                                                  *)
(***************************************************************************)
InList(d, list) == \E i \in 1..Len(list) : list[i] = d

\* validHandle: the loop runs until it finds dev; with dev not in the list it
\* reaches the terminating NULL, which equals a null dev, and otherwise reads
\* NULL->next
validHandle(d) ==
    IF InList(d, devList) THEN 1
    ELSE IF d = NullDev THEN 0
    ELSE Fault

\* validPortHandle: the address lies in [&i2cPorts[0], &i2cPorts[0] + 16 slots]
\* of some live session, both ends included
validPortHandle(h) ==
    IF \E i \in 1..Len(devList) :
          /\ devList[i] = h.dev
          /\ h.adr >= 0
          /\ h.adr <= MAX_I2C_PORTS + MAX_SPI_PORTS
    THEN 1 ELSE 0

\* the address is the address of a byte of i2cPorts[] or spiPorts[], which lie
\* one after the other in LPCUSBSIO_Ctrl_t
InPortTables(h) ==
    h.adr >= 0 /\ h.adr < MAX_I2C_PORTS + MAX_SPI_PORTS

\* the slot a port handle points to
PortAt(h) ==
    IF h.adr < MAX_I2C_PORTS THEN i2cPorts[h.dev][h.adr]
    ELSE spiPorts[h.dev][h.adr - MAX_I2C_PORTS]

\* the sign is applied to the status only
ConvertResp_mut(res) ==
    IF res = HID_SIO_RES_OK THEN LPCUSBSIO_OK ELSE -res + 16

ConvertResp(res) ==
    IF res = HID_SIO_RES_OK THEN LPCUSBSIO_OK ELSE -(res + 16)

\* the check without its second half
ParamError_mut(outLen, outNull, inLenNull, inNull) == outLen > 0 /\ outNull

\* SIO_SendRequest, the check before any I/O
ParamError(outLen, outNull, inLenNull, inNull) ==
    \/ (outLen > 0 /\ outNull)
    \/ (~inLenNull /\ inNull)

\* the limit is the size of the report, not of its body
OneTx_mut(outLen) ==
    IF outLen > HID_SIO_PACKET_SZ THEN HID_SIO_PACKET_DATA_SZ ELSE outLen

\* bytes of payload the next frame carries
OneTx(outLen) ==
    IF outLen > HID_SIO_PACKET_DATA_SZ THEN HID_SIO_PACKET_DATA_SZ ELSE outLen

\* memset of the body, then memcpy of oneTx bytes from outData
Body(outData, off, oneTx) ==
    [i \in 1..HID_SIO_PACKET_DATA_SZ |->
        IF i <= oneTx THEN outData[off + i] ELSE 0]

\* the write loop does not look at the result of hid_write
WriteMore_mut(res, outLen) == outLen > 0

\* the write loop runs again
WriteMore(res, outLen) == res > 0 /\ outLen > 0

\* the read loop is entered, or runs again
ReadMore(res, read_pending) == res > 0 /\ read_pending

\* no frame is discarded
Discard_mut(pIn, pOut) == FALSE

\* an inbound frame that is not the reply to the outstanding request
Discard(pIn, pOut) == pIn.transId # pOut.transId

\* bytes of payload an inbound frame carries
InBytes(pIn) == pIn.packet_len - HID_SIO_PACKET_HEADER_SZ

\* memcpy(inData, &pIn->data[0], packet_len - header); inData += ...
Accumulate(inData, pIn) == inData \o SubSeq(pIn.data, 1, InBytes(pIn))

\* the identity counted in payload capacities instead of packet sizes
Completed_mut(pIn) ==
    pIn.packet_num * HID_SIO_PACKET_DATA_SZ + pIn.packet_len = pIn.transfer_len

\* the completion identity
Completed(pIn) ==
    pIn.packet_num * HID_SIO_PACKET_SZ + pIn.packet_len = pIn.transfer_len

\* memcpy(buffer, inData, n) into the caller's buffer
CopyOut(buffer, inData, n) ==
    [i \in 1..Max(Len(buffer), n) |->
        IF i <= n THEN inData[i] ELSE buffer[i]]

\* the bits of a byte that are set, and the byte of a set of bits
ByteBits(b) == {k \in 0..7 : (b \div 2^k) % 2 = 1}

RECURSIVE ByteOf(_)
ByteOf(S) ==
    IF S = {} THEN 0
    ELSE LET k == CHOOSE x \in S : TRUE IN 2^k + ByteOf(S \ {k})

\* a | b, a & ~b and a & b # 0 on uint32_t
Or32(a, b) == [i \in 1..4 |-> ByteOf(ByteBits(a[i]) \cup ByteBits(b[i]))]

AndNot32(a, b) == [i \in 1..4 |-> ByteOf(ByteBits(a[i]) \ ByteBits(b[i]))]

Test32(a, b) == \E i \in 1..4 : ByteBits(a[i]) \cap ByteBits(b[i]) # {}

\* the pin number itself is passed as the mask
PinMask_mut(pin) == <<pin, 0, 0, 0>>

\* (1 << pin) for pin 0..31, converted to uint32_t; 1 << 31 leaves the range
\* of int, gcc and clang define it as the sign bit
PinMask(pin) ==
    [i \in 1..4 |-> IF pin \div 8 = i - 1 THEN 2^(pin % 8) ELSE 0]

\* the operations that go through GPIO_SendCmd
GpioCmds == {"GPIO_SetPin", "GPIO_ClearPin", "GPIO_GetPin"}

\* *status = *((uint32_t*)inData): the four bytes malloc(4) holds; bytes the
\* reply did not fill keep what the allocation held
Status32(inData) ==
    [i \in 1..4 |-> IF i <= Len(inData) THEN inData[i] ELSE UserFill]

\* GPIO_SendCmd after the engine (lines 447-462), then GPIO_GetPin (1188-1190)
FinishGpio(r, res) ==
    LET n == IF res = LPCUSBSIO_OK THEN r.inLen ELSE res
        status == IF res = LPCUSBSIO_OK /\ n # 0 THEN Status32(r.inData)
                  ELSE r.status
    IN  [r EXCEPT !.pc = "done", !.res = res, !.status = status,
                  !.ret = IF r.op = "GPIO_GetPin" /\ n > 0
                          THEN (IF Test32(status, PinMask(r.pin)) THEN 1 ELSE 0)
                          ELSE n]

\* what the operations that hand no reply to their caller do with the
\* engine's result
FinishPlain(r, res) ==
    IF r.op \in GpioCmds THEN FinishGpio(r, res)
    ELSE IF r.op = "I2C_DeviceWrite" /\ res = LPCUSBSIO_OK
    THEN [r EXCEPT !.pc = "done", !.res = res, !.ret = r.size]
    ELSE IF r.op \in {"I2C_Open", "SPI_Open"}
    THEN [r EXCEPT !.pc = "done", !.res = res, !.ret = res,
                   !.h = IF res = LPCUSBSIO_OK THEN @ ELSE NoHandle]
    ELSE IF r.op = "LPCUSBSIO_Open"
    THEN [r EXCEPT !.pc = "done", !.res = res, !.ret = r.d]
    ELSE IF r.op = "LPCUSBSIO_Close"
    THEN [r EXCEPT !.pc = "closing", !.res = res, !.idx = @ + 1,
                   !.deinit = Append(@, [h |-> r.h, req |-> r.req,
                                         tid |-> r.tid, res |-> res,
                                         sent |-> Len(r.sent)])]
    ELSE [r EXCEPT !.pc = "done", !.res = res, !.ret = res]

\* the reply is copied out whatever the engine returned
Finish_mut(r, res) ==
    IF r.op \in {"I2C_DeviceRead", "SPI_Transfer"}
    THEN [r EXCEPT !.pc = "done", !.res = res,
                   !.ret = IF res = LPCUSBSIO_OK THEN r.inLen ELSE res,
                   !.buffer = CopyOut(r.buffer, r.inData, r.inLen)]
    ELSE FinishPlain(r, res)

\* the bytes the caller of the engine has allocated for the reply: line 590
\* in LPCUSBSIO_Open, 441 in GPIO_SendCmd, 848, 952 and 1085 in the transfers
InCapacity(r) ==
    IF r.op = "LPCUSBSIO_Open" THEN 12 + MAX_FWVER_STRLEN
    ELSE IF r.op \in GpioCmds THEN 4
    ELSE r.size

\* the length of the reply is returned also when it is zero
XferResult_mut(inLen, txSz) == inLen

\* lines 961-970: the length of the reply, or of what was sent when the
\* reply is empty
XferResult(inLen, txSz) == IF inLen # 0 THEN inLen ELSE txSz

\* what a bus operation does with the engine's result before it returns
Finish(r, res) ==
    IF r.op \in {"I2C_DeviceRead", "SPI_Transfer"} /\ res = LPCUSBSIO_OK
    THEN [r EXCEPT !.pc = "done", !.res = res, !.ret = r.inLen,
                   !.buffer = CopyOut(r.buffer, r.inData, r.inLen)]
    ELSE IF r.op = "I2C_FastXfer" /\ res = LPCUSBSIO_OK
    THEN [r EXCEPT !.pc = "done", !.res = res,
                   !.ret = XferResult(r.inLen, r.txSz),
                   !.buffer = IF r.inLen # 0
                              THEN CopyOut(r.buffer, r.inData, r.inLen) ELSE @]
    ELSE FinishPlain(r, res)


(***************************************************************************)
(* What the callers pass and what the transport answers                    *)
(***************************************************************************)
\* hid_write: bytes written, or -1
WriteResults == {-1, 0, HID_SIO_PACKET_SZ + 1}

\* payload lengths of direct engine calls: no payload, two frames
RawLens == {0, HID_SIO_PACKET_DATA_SZ + 1}

\* lengths asked of I2C_DeviceRead / SPI_Transfer
ReadSizes == {2, HID_SIO_PACKET_DATA_SZ + 2}

\* non-OK status bytes the device answers with
ErrResps == {2, 18, 255}

\* the arguments of a direct engine call: is outData NULL, is inData NULL,
\* is inLen NULL
Shapes == BOOLEAN \X BOOLEAN \X BOOLEAN

\* counter values of a session when the threads start: a fresh session, and a
\* session that has run 255 exchanges
StartIds == {0, 255}

Payload(n) == [i \in 1..n |-> Byte(i)]

\* the {length, options, address} head of an I2C read or write request
I2CParams(length, options, slaveAddr) ==
    <<length % 256, length \div 256, options, slaveAddr>>

\* the {txLength, rxLength, options, slaveAddr} head of a fast transfer
I2CXferParams(txSz, rxSz, options, slaveAddr) ==
    <<txSz % 256, txSz \div 256, rxSz % 256, rxSz \div 256,
      options % 256, options \div 256, slaveAddr % 256, slaveAddr \div 256>>

\* the {length, options, device} head of an SPI transfer request
SPIParams(length, options, device) ==
    <<length % 256, length \div 256, options, device>>

\* frame pnum of a device reply of R payload bytes
ReplyFrame(tid, ses, resp, R, pnum) ==
    LET n == Min(HID_SIO_PACKET_DATA_SZ, R - pnum * HID_SIO_PACKET_DATA_SZ)
    IN  [transId |-> tid, sesId |-> ses, req |-> "0", resp |-> resp,
         transfer_len |-> HID_SIO_CALC_TRANSFER_LEN(R),
         packet_num |-> pnum,
         packet_len |-> n + HID_SIO_PACKET_HEADER_SZ,
         data |-> [i \in 1..HID_SIO_PACKET_DATA_SZ |->
                     IF i <= n THEN RespByte(pnum * HID_SIO_PACKET_DATA_SZ + i)
                     ELSE 0]]

\* reply lengths the device chooses from
ReplyLens == {0, 2, HID_SIO_PACKET_DATA_SZ + 2}

\* the frames hid_read_timeout may deliver while request tid is outstanding:
\* any frame of any reply, in any order; an error status; a late frame of
\* the exchange before
InFrames(tid, ses, Lens, Errs) ==
    UNION {{ReplyFrame(tid, ses, HID_SIO_RES_OK, R, k) :
               k \in 0..(NumFrames(R) - 1)} : R \in Lens}
    \cup {ReplyFrame(tid, ses, e, 0, 0) : e \in Errs}
    \cup {ReplyFrame((tid + 255) % 256, ses, HID_SIO_RES_OK, 2, 0)}

\* what one hid_read_timeout call returns: -1, 0 (timeout) or a report
ReadResults(tid, ses, Lens, Errs) ==
    {[n |-> -1, frame |-> ZeroPacket], [n |-> 0, frame |-> ZeroPacket]}
    \cup {[n |-> HID_SIO_PACKET_SZ + 1, frame |-> f] :
             f \in InFrames(tid, ses, Lens, Errs)}

(***************************************************************************)
(* Calls: a thread enters a bus operation, which checks its arguments,     *)
(* builds the request and enters SIO_SendRequest (lines 288-302)           *)
(***************************************************************************)
\* SIO_SendRequest up to the lock: the parameter check returns at once
Enter(t, r) ==
    IF ParamError(r.outLen, r.outNull, r.inLenNull, r.inNull)
    THEN /\ g_lastError' = LPCUSBSIO_ERR_INVALID_PARAM
         /\ th' = [th EXCEPT ![t] = Finish(r, LPCUSBSIO_ERR_INVALID_PARAM)]
         /\ UNCHANGED nexch
    ELSE /\ IF r.d = NullDev THEN TRUE ELSE nexch[r.d] > 0
         /\ nexch' = IF r.d = NullDev THEN nexch
                     ELSE [nexch EXCEPT ![r.d] = @ - 1]
         /\ th' = [th EXCEPT ![t] = [r EXCEPT !.pc = "lock"]]
         /\ UNCHANGED g_lastError

\* a bus operation returns before it reaches the engine
Reject(t, r, err) ==
    /\ g_lastError' = err
    /\ th' = [th EXCEPT ![t] = [r EXCEPT !.pc = "done", !.res = err,
                                         !.ret = err]]
    /\ UNCHANGED nexch

\* SIO_SendRequest called with arguments of every shape
CallSendRequest(t, Lens, Shp) ==
    /\ th[t].pc = "idle"
    /\ \E d \in Devs, n \in Lens, shape \in Shp :
         /\ InList(d, devList)
         /\ Enter(t, [th[t] EXCEPT
                !.op = "SIO_SendRequest", !.d = d, !.portNum = 0,
                !.req = "RAW", !.outNull = shape[1],
                !.outData = IF shape[1] THEN <<>> ELSE Payload(n),
                !.outDataLen = n, !.outLen = n,
                !.inNull = shape[2], !.inLenNull = shape[3]])
    /\ UNCHANGED <<registry, transId, sioMutex, outPacket, wire>>

\* a read through a null pointer ends the process
Crash(t, r) ==
    /\ th' = [th EXCEPT ![t] = [r EXCEPT !.pc = "fault", !.res = Fault]]
    /\ UNCHANGED <<g_lastError, nexch>>

\* the handle is the address of an open slot of a live session
PortOpen(h) == validPortHandle(h) = 1 /\ PortAt(h).hUsbSio # NullDev

\* the counter of the session a port handle leads to, when the call is made
IdAtCall(h) == IF PortOpen(h) THEN transId[PortAt(h).hUsbSio] ELSE 0

\* the I2C parameter check without the test of the address
BadI2CArgs_mut(size, max, bufNull, deviceAddress) ==
    size > max \/ (size > 0 /\ bufNull)

\* the parameter check of I2C_DeviceRead (837-839) and I2C_DeviceWrite
\* (888-890); I2C_FastXfer (939-942) makes it for each of its two buffers
BadI2CArgs(size, max, bufNull, deviceAddress) ==
    size > max \/ (size > 0 /\ bufNull) \/ deviceAddress > 127

\* I2C_DeviceRead (lines 816-867)
CallI2CDeviceRead(t, Sizes, Addrs, BufNulls) ==
    /\ th[t].pc = "idle"
    /\ \E d \in Devs, size \in Sizes, deviceAddress \in Addrs,
          bufNull \in BufNulls, alloc \in BOOLEAN :
         LET h == I2CHandle(d, 0)
             r == [th[t] EXCEPT !.op = "I2C_DeviceRead", !.h = h,
                                !.size = size, !.addr = deviceAddress,
                                !.bufNull = bufNull, !.id0 = IdAtCall(h),
                                !.live = PortOpen(h),
                                !.buffer = IF bufNull THEN <<>>
                                           ELSE [i \in 1..size |-> UserFill]]
         IN  IF validPortHandle(h) = 0
             THEN Reject(t, r, LPCUSBSIO_ERR_BAD_HANDLE)
             ELSE IF PortAt(h).hUsbSio = NullDev
             THEN Crash(t, r)
             ELSE IF BadI2CArgs(size, maxDataSize[PortAt(h).hUsbSio],
                                bufNull, deviceAddress)
             THEN Reject(t, r, LPCUSBSIO_ERR_INVALID_PARAM)
             ELSE IF ~alloc
             THEN Reject(t, r, LPCUSBSIO_ERR_MEM_ALLOC)
             ELSE Enter(t, [r EXCEPT
                    !.d = PortAt(h).hUsbSio, !.portNum = PortAt(h).portNum,
                    !.req = "HID_I2C_REQ_DEVICE_READ", !.outNull = FALSE,
                    !.outData = I2CParams(size, 0, deviceAddress),
                    !.outDataLen = I2C_RW_PARAMS_SZ,
                    !.outLen = I2C_RW_PARAMS_SZ,
                    !.inNull = FALSE, !.inLenNull = FALSE])
    /\ UNCHANGED <<registry, transId, sioMutex, outPacket, wire>>

\* I2C_DeviceWrite (lines 869-920)
CallI2CDeviceWrite(t, Sizes, Addrs, BufNulls, Allocs) ==
    /\ th[t].pc = "idle"
    /\ \E d \in Devs, size \in Sizes, deviceAddress \in Addrs,
          bufNull \in BufNulls, alloc \in Allocs :
         LET h == I2CHandle(d, 0)
             r == [th[t] EXCEPT !.op = "I2C_DeviceWrite", !.h = h,
                                !.size = size, !.addr = deviceAddress,
                                !.bufNull = bufNull, !.id0 = IdAtCall(h),
                                !.live = PortOpen(h),
                                !.buffer = IF bufNull THEN <<>>
                                           ELSE Payload(size)]
         IN  IF validPortHandle(h) = 0
             THEN Reject(t, r, LPCUSBSIO_ERR_BAD_HANDLE)
             ELSE IF PortAt(h).hUsbSio = NullDev
             THEN Crash(t, r)
             ELSE IF BadI2CArgs(size, maxDataSize[PortAt(h).hUsbSio],
                                bufNull, deviceAddress)
             THEN Reject(t, r, LPCUSBSIO_ERR_INVALID_PARAM)
             ELSE IF ~alloc
             THEN Reject(t, r, LPCUSBSIO_ERR_MEM_ALLOC)
             ELSE Enter(t, [r EXCEPT
                    !.d = PortAt(h).hUsbSio, !.portNum = PortAt(h).portNum,
                    !.req = "HID_I2C_REQ_DEVICE_WRITE", !.outNull = FALSE,
                    !.outData = I2CParams(size, 0, deviceAddress)
                                   \o r.buffer,
                    !.outDataLen = I2C_RW_PARAMS_SZ + size,
                    !.outLen = I2C_RW_PARAMS_SZ + size,
                    !.inNull = TRUE, !.inLenNull = TRUE])
    /\ UNCHANGED <<registry, transId, sioMutex, outPacket, wire>>

\* I2C_FastXfer (lines 922-982)
CallI2CFastXfer(t, TxSizes, RxSizes, Addrs, BufNulls) ==
    /\ th[t].pc = "idle"
    /\ \E d \in Devs, txSz \in TxSizes, rxSz \in RxSizes,
          slaveAddr \in Addrs, txNull \in BufNulls, rxNull \in BufNulls,
          alloc \in BOOLEAN :
         LET h == I2CHandle(d, 0)
             r == [th[t] EXCEPT !.op = "I2C_FastXfer", !.h = h,
                                !.size = rxSz, !.txSz = txSz,
                                !.addr = slaveAddr, !.bufNull = rxNull,
                                !.txNull = txNull, !.id0 = IdAtCall(h),
                                !.live = PortOpen(h),
                                !.buffer = IF rxNull THEN <<>>
                                           ELSE [i \in 1..rxSz |-> UserFill]]
         IN  IF validPortHandle(h) = 0
             THEN Reject(t, r, LPCUSBSIO_ERR_BAD_HANDLE)
             ELSE IF PortAt(h).hUsbSio = NullDev
             THEN Crash(t, r)
             ELSE IF \/ BadI2CArgs(txSz, maxDataSize[PortAt(h).hUsbSio],
                                   txNull, slaveAddr)
                     \/ BadI2CArgs(rxSz, maxDataSize[PortAt(h).hUsbSio],
                                   rxNull, slaveAddr)
             THEN Reject(t, r, LPCUSBSIO_ERR_INVALID_PARAM)
             ELSE IF ~alloc
             THEN Reject(t, r, LPCUSBSIO_ERR_MEM_ALLOC)
             ELSE Enter(t, [r EXCEPT
                    !.d = PortAt(h).hUsbSio, !.portNum = PortAt(h).portNum,
                    !.req = "HID_I2C_REQ_DEVICE_XFER", !.outNull = FALSE,
                    !.outData = I2CXferParams(txSz, rxSz, 0, slaveAddr)
                                   \o (IF txNull THEN <<>> ELSE Payload(txSz)),
                    !.outDataLen = I2C_XFER_PARAMS_SZ + txSz,
                    !.outLen = I2C_XFER_PARAMS_SZ + txSz,
                    !.inNull = FALSE, !.inLenNull = FALSE])
    /\ UNCHANGED <<registry, transId, sioMutex, outPacket, wire>>

\* SPI_Transfer (lines 1054-1111)
CallSPITransfer(t) ==
    /\ th[t].pc = "idle"
    /\ \E d \in Devs, length \in {2}, bufNull \in {FALSE}, alloc \in BOOLEAN :
         LET h == SPIHandle(d, 0)
             r == [th[t] EXCEPT !.op = "SPI_Transfer", !.h = h,
                                !.size = length,
                                !.buffer = [i \in 1..length |-> UserFill]]
         IN  IF validPortHandle(h) = 0
             THEN Reject(t, r, LPCUSBSIO_ERR_BAD_HANDLE)
             ELSE IF PortAt(h).hUsbSio = NullDev
             THEN Crash(t, r)
             ELSE IF \/ length > maxDataSize[PortAt(h).hUsbSio]
                     \/ (length > 0 /\ bufNull)
             THEN Reject(t, r, LPCUSBSIO_ERR_INVALID_PARAM)
             ELSE IF ~alloc
             THEN Reject(t, r, LPCUSBSIO_ERR_MEM_ALLOC)
             ELSE Enter(t, [r EXCEPT
                    !.d = PortAt(h).hUsbSio, !.portNum = PortAt(h).portNum,
                    !.req = "HID_SPI_REQ_DEVICE_XFER", !.outNull = FALSE,
                    !.outData = SPIParams(length, 0, 0) \o Payload(length),
                    !.outDataLen = SPI_XFER_PARAMS_SZ + length,
                    !.outLen = SPI_XFER_PARAMS_SZ + length,
                    !.inNull = FALSE, !.inLenNull = FALSE])
    /\ UNCHANGED <<registry, transId, sioMutex, outPacket, wire>>

\* I2C_Reset (lines 984-1000) and SPI_Reset (lines 1113-1132)
CallReset(t) ==
    /\ th[t].pc = "idle"
    /\ \E d \in Devs, bus \in {"I2C", "SPI"} :
         LET h == IF bus = "I2C" THEN I2CHandle(d, 0) ELSE SPIHandle(d, 0)
             r == [th[t] EXCEPT !.op = bus \o "_Reset", !.h = h]
         IN  IF validPortHandle(h) = 0
             THEN Reject(t, r, LPCUSBSIO_ERR_BAD_HANDLE)
             ELSE Enter(t, [r EXCEPT
                    !.d = PortAt(h).hUsbSio, !.portNum = PortAt(h).portNum,
                    !.req = "HID_" \o bus \o "_REQ_RESET", !.outNull = TRUE,
                    !.outData = <<>>, !.outDataLen = 0, !.outLen = 0,
                    !.inNull = TRUE, !.inLenNull = TRUE])
    /\ UNCHANGED <<registry, transId, sioMutex, outPacket, wire>>

(***************************************************************************)
(* The registry: discovery, sessions, enumeration cursors                  *)
(***************************************************************************)
\* the product strings of the devices hid_enumerate may find: devices 1 and
\* 2 are bridges, device 3 is not
Product(dev) ==
    IF dev = 1 THEN <<"L", "P", "C", "S", "I", "O">>
    ELSE IF dev = 2 THEN <<"M", "C", "U", "S", "I", "O", "2">>
    ELSE <<"L", "P", "C", "S", "I">>

\* what hid_enumerate may return, in its order
Enumerated == {<<>>, <<1>>, <<3>>, <<3, 1>>, <<1, 3, 2>>}

\* wcsncmp(s, p, n) = 0 for a prefix p of n characters
StartsWith(s, p) == Len(s) >= Len(p) /\ SubSeq(s, 1, Len(p)) = p

\* only the LPCSIO name is looked for
IsSio_mut(dev) == StartsWith(Product(dev), <<"L", "P", "C", "S", "I", "O">>)

\* line 509: the product string starts with LPCSIO or with MCUSIO
IsSio(dev) ==
    \/ StartsWith(Product(dev), <<"L", "P", "C", "S", "I", "O">>)
    \/ StartsWith(Product(dev), <<"M", "C", "U", "S", "I", "O">>)

\* lines 494-530: the list is walked from its head and every node that is
\* not a bridge is unlinked and freed
RECURSIVE KeepSio(_)
KeepSio(list) ==
    IF list = <<>> THEN <<>>
    ELSE IF IsSio(Head(list)) THEN <<Head(list)>> \o KeepSio(Tail(list))
    ELSE KeepSio(Tail(list))

\* handles of enumeration cursors; 0 is NULL
Cursors == {1}

\* what is live at the moment of a release
Snapshot(sessions, by) ==
    [done |-> TRUE, sessions |-> Len(sessions),
     cursors |-> Len(g_hidapiEnums), by |-> by]

\* the call returns without an exchange; g_lastError is left alone
Leave(t, r, ret) ==
    th' = [th EXCEPT ![t] = [r EXCEPT !.pc = "done", !.res = ret, !.ret = ret]]

\* LPCUSBSIO_GetNumPorts (lines 475-535): the list of the call before is
\* freed whatever still refers to it
CallGetNumPorts(t) ==
    /\ th[t].pc = "idle"
    /\ \E enum \in Enumerated :
         /\ devInfoList' = KeepSio(enum)
         /\ Leave(t, [th[t] EXCEPT !.op = "LPCUSBSIO_GetNumPorts",
                                   !.enum = enum],
                  Len(KeepSio(enum)))
    /\ released' = IF devInfoList # <<>>
                   THEN [released EXCEPT !.list = Snapshot(devList, "LPCUSBSIO_GetNumPorts")]
                   ELSE released
    /\ hidInit' = TRUE
    /\ UNCHANGED <<g_lastError, devList, transId, maxDataSize, sioMutex,
                   outPacket, i2cPorts, spiPorts, wire, nexch, hidDev,
                   maxI2CPorts, maxSPIPorts, maxGPIOPorts, fwBuild, g_hidapiEnums,
                   gpioPins>>

\* GetDevAtIndex (lines 179-192)
GetDevAtIndex(index) ==
    IF index < Len(devInfoList) THEN devInfoList[index + 1] ELSE NullDev

\* how far LPCUSBSIO_Open gets: hid_open_path fails, malloc of the session
\* fails, pthread_mutex_init fails, malloc of the reply buffer fails, or the
\* device-info exchange is started
OpenOutcomes == {"nopath", "nomem", "nomutex", "noinfo", "query"}

\* LPCUSBSIO_Open (lines 561-647) up to the device-info exchange.  A device
\* that has a session is not opened again.
CallOpen(t) ==
    /\ th[t].pc = "idle"
    /\ \E index \in {0, 1, 2}, outcome \in OpenOutcomes :
         LET d == GetDevAtIndex(index)
             r == [th[t] EXCEPT !.op = "LPCUSBSIO_Open", !.hs = d,
                                !.idx = index, !.cap = Len(devInfoList)]
         IN  IF d = NullDev \/ outcome = "nopath"
                \/ InList(d, devList) \/ hidDev[d]
             THEN /\ Leave(t, r, NullDev)
                  /\ UNCHANGED <<g_lastError, devList, transId, maxDataSize,
                                 sioMutex, outPacket, i2cPorts, spiPorts,
                                 nexch, hidDev, maxI2CPorts, maxSPIPorts,
                                 maxGPIOPorts, fwBuild>>
             ELSE IF outcome = "nomem"
             THEN \* pHid is open and nothing closes it (lines 577-579, 645)
                  /\ hidDev' = [hidDev EXCEPT ![d] = TRUE]
                  /\ Leave(t, r, NullDev)
                  /\ UNCHANGED <<g_lastError, devList, transId, maxDataSize,
                                 sioMutex, outPacket, i2cPorts, spiPorts,
                                 nexch, maxI2CPorts, maxSPIPorts,
                                 maxGPIOPorts, fwBuild>>
             ELSE /\ devList' = <<d>> \o devList
                  /\ hidDev' = [hidDev EXCEPT ![d] = TRUE]
                  /\ transId' = [transId EXCEPT ![d] = 0]
                  /\ maxDataSize' = [maxDataSize EXCEPT ![d] = 0]
                  /\ maxI2CPorts' = [maxI2CPorts EXCEPT ![d] = 0]
                  /\ maxSPIPorts' = [maxSPIPorts EXCEPT ![d] = 0]
                  /\ maxGPIOPorts' = [maxGPIOPorts EXCEPT ![d] = 0]
                  /\ fwBuild' = [fwBuild EXCEPT ![d] = NoString]
                  /\ outPacket' = [outPacket EXCEPT ![d] = ZeroPacket]
                  /\ i2cPorts' = [i2cPorts EXCEPT ![d] =
                                    [i \in 0..(MAX_I2C_PORTS - 1) |-> ClosedPort]]
                  /\ spiPorts' = [spiPorts EXCEPT ![d] =
                                    [i \in 0..(MAX_SPI_PORTS - 1) |-> ClosedPort]]
                  /\ sioMutex' = [sioMutex EXCEPT ![d] = NoThread]
                  /\ IF outcome = "nomutex"
                     THEN /\ g_lastError' = LPCUSBSIO_ERR_MUTEX_CREATE
                          /\ Leave(t, r, NullDev)
                          /\ UNCHANGED nexch
                     ELSE IF outcome = "noinfo"
                     THEN /\ g_lastError' = LPCUSBSIO_OK
                          /\ Leave(t, r, d)
                          /\ UNCHANGED nexch
                     ELSE /\ g_lastError' = LPCUSBSIO_OK
                          /\ nexch[d] > 0
                          /\ nexch' = [nexch EXCEPT ![d] = @ - 1]
                          /\ th' = [th EXCEPT ![t] = [r EXCEPT
                                !.pc = "lock", !.d = d, !.portNum = 0,
                                !.req = "HID_SIO_REQ_DEV_INFO",
                                !.outNull = TRUE, !.outData = <<>>,
                                !.outDataLen = 0, !.outLen = 0,
                                !.inNull = FALSE, !.inLenNull = FALSE]]
    /\ UNCHANGED <<wire, devInfoList, g_hidapiEnums, hidInit, released,
                   gpioPins>>

\* HIDAPI_Enumerate (lines 1243-1265): a new cursor, or NULL without memory
CallEnumerate(t) ==
    /\ th[t].pc = "idle"
    /\ \E mem \in BOOLEAN, c \in Cursors :
         LET r == [th[t] EXCEPT !.op = "HIDAPI_Enumerate"]
         IN  /\ ~InList(c, g_hidapiEnums)
             /\ IF mem
                THEN /\ g_hidapiEnums' = <<c>> \o g_hidapiEnums
                     /\ Leave(t, r, c)
                ELSE /\ UNCHANGED g_hidapiEnums
                     /\ Leave(t, r, 0)
    /\ hidInit' = TRUE
    /\ UNCHANGED <<g_lastError, devList, transId, maxDataSize, sioMutex,
                   outPacket, i2cPorts, spiPorts, wire, nexch, hidDev,
                   maxI2CPorts, maxSPIPorts, maxGPIOPorts, fwBuild, devInfoList,
                   released, gpioPins>>

\* HIDAPI_EnumerateFree (lines 1315-1342): a cursor of the chain is unlinked
\* and freed; LibCleanup is not called
CallEnumerateFree(t) ==
    /\ th[t].pc = "idle"
    /\ \E c \in Cursors \cup {0} :
         LET r == [th[t] EXCEPT !.op = "HIDAPI_EnumerateFree"]
             found == InList(c, g_hidapiEnums)
         IN  /\ g_hidapiEnums' = SelectSeq(g_hidapiEnums, LAMBDA x : x # c)
             /\ Leave(t, r, IF found THEN 1 ELSE 0)
    /\ UNCHANGED <<g_lastError, devList, transId, maxDataSize, sioMutex,
                   outPacket, i2cPorts, spiPorts, wire, nexch, hidDev,
                   maxI2CPorts, maxSPIPorts, maxGPIOPorts, fwBuild, devInfoList,
                   hidInit, released, gpioPins>>

(***************************************************************************)
(* Ports: I2C_Open, SPI_Open, I2C_Close, SPI_Close                         *)
(***************************************************************************)
\* sizeof(I2C_PORTCONFIG_T) and sizeof(HID_SPI_PORTCONFIG_T): two 32-bit words
PORTCONFIG_SZ == 8

\* session handles a caller may pass: NULL, a live session, a closed one
Handles == Devs \cup {NullDev}

\* the port number one past the last is let through
PortInRange_mut(portNum, max) == portNum <= max

\* lines 779 and 1011: portNum >= dev->maxI2CPorts is refused
PortInRange(portNum, max) == portNum < max

\* the capability count the port number is compared with
PortCount(hs, bus) ==
    IF hs = NullDev THEN 0
    ELSE IF bus = "I2C" THEN maxI2CPorts[hs] ELSE maxSPIPorts[hs]

\* the address of the slot of port portNum
SlotHandle(hs, bus, portNum) ==
    IF bus = "I2C" THEN I2CHandle(hs, portNum) ELSE SPIHandle(hs, portNum)

\* I2C_Open (lines 771-798) and SPI_Open (lines 1004-1033)
CallPortOpen(t, Ports, CfgNulls) ==
    /\ th[t].pc = "idle"
    /\ \E hs \in Handles, bus \in {"I2C", "SPI"}, portNum \in Ports,
          cfgNull \in CfgNulls, alloc \in BOOLEAN :
         LET r == [th[t] EXCEPT
                     !.op = bus \o "_Open", !.hs = hs, !.portNum = portNum,
                     !.live = InList(hs, devList),
                     !.cap = PortCount(hs, bus),
                     !.h = SlotHandle(hs, bus, portNum)]
         IN  IF validHandle(hs) = Fault
             THEN Crash(t, r)
             ELSE IF \/ validHandle(hs) = 0
                     \/ cfgNull
                     \/ ~PortInRange(portNum, PortCount(hs, bus))
             THEN Reject(t, [r EXCEPT !.h = NoHandle],
                         LPCUSBSIO_ERR_INVALID_PARAM)
             ELSE IF ~alloc
             THEN /\ Leave(t, [r EXCEPT !.h = NoHandle], 0)
                  /\ UNCHANGED <<g_lastError, nexch>>
             ELSE Enter(t, [r EXCEPT
                    !.d = hs, !.req = "HID_" \o bus \o "_REQ_INIT_PORT",
                    !.outNull = FALSE, !.outData = Payload(PORTCONFIG_SZ),
                    !.outDataLen = PORTCONFIG_SZ, !.outLen = PORTCONFIG_SZ,
                    !.inNull = TRUE, !.inLenNull = TRUE])
    /\ UNCHANGED <<registry, transId, sioMutex, outPacket, wire>>

\* I2C_Close (lines 800-813) and SPI_Close (lines 1035-1052): the session
\* and the port number are read from the slot, open or not. At the address
\* past the last SPI slot lies sioMutex: what is read there as a slot is not
\* defined, the session pointer is null or wild and the call does not return
CallPortClose(t, Ports) ==
    /\ th[t].pc = "idle"
    /\ \E d \in Devs, bus \in {"I2C", "SPI"}, portNum \in Ports :
         LET h == SlotHandle(d, bus, portNum)
             r == [th[t] EXCEPT !.op = bus \o "_Close", !.h = h,
                                !.live = IF InPortTables(h)
                                         THEN PortAt(h).hUsbSio # NullDev
                                         ELSE FALSE]
         IN  IF validPortHandle(h) = 0
             THEN Reject(t, r, LPCUSBSIO_ERR_BAD_HANDLE)
             ELSE IF ~InPortTables(h)
             THEN \/ Crash(t, r)
                  \/ Enter(t, [r EXCEPT
                         !.d = NullDev, !.portNum = 0,
                         !.req = "HID_" \o bus \o "_REQ_DEINIT_PORT",
                         !.outNull = TRUE, !.outData = <<>>,
                         !.outDataLen = 0, !.outLen = 0, !.inNull = TRUE,
                         !.inLenNull = TRUE])
             ELSE Enter(t, [r EXCEPT
                    !.d = PortAt(h).hUsbSio, !.portNum = PortAt(h).portNum,
                    !.req = "HID_" \o bus \o "_REQ_DEINIT_PORT",
                    !.outNull = TRUE, !.outData = <<>>, !.outDataLen = 0,
                    !.outLen = 0, !.inNull = TRUE, !.inLenNull = TRUE])
    /\ UNCHANGED <<registry, transId, sioMutex, outPacket, wire>>

(***************************************************************************)
(* GPIO_SetPin, GPIO_ClearPin, GPIO_GetPin (lines 1177-1198) through       *)
(* GPIO_SendCmd (lines 428-463)                                            *)
(***************************************************************************)
\* the setPins argument of the command
SetMask(op, pin) == IF op = "GPIO_SetPin" THEN PinMask(pin) ELSE Zero32

\* the clrPins argument of the command
ClearMask(op, pin) == IF op = "GPIO_ClearPin" THEN PinMask(pin) ELSE Zero32

CallGpioPin(t, Pins) ==
    /\ th[t].pc = "idle"
    /\ \E hs \in Handles, op \in GpioCmds, port \in GpioPorts, pin \in Pins,
          alloc \in BOOLEAN :
         LET r == [th[t] EXCEPT !.op = op, !.hs = hs, !.portNum = port,
                                !.pin = pin, !.live = InList(hs, devList),
                                !.status = Zero32]
         IN  IF validHandle(hs) = Fault
             THEN Crash(t, r)
             ELSE IF validHandle(hs) = 0
             THEN Reject(t, r, LPCUSBSIO_ERR_BAD_HANDLE)
             ELSE IF ~alloc
             THEN Reject(t, r, LPCUSBSIO_ERR_MEM_ALLOC)
             ELSE Enter(t, [r EXCEPT
                    !.d = hs, !.req = "HID_GPIO_REQ_PORT_VALUE",
                    !.outNull = FALSE,
                    !.outData = SetMask(op, pin) \o ClearMask(op, pin),
                    !.outDataLen = 8, !.outLen = 8,
                    !.inNull = FALSE, !.inLenNull = FALSE])
    /\ UNCHANGED <<registry, transId, sioMutex, outPacket, wire>>

(***************************************************************************)
(* LPCUSBSIO_Close, lines 649-688, and freeDevice, lines 226-253           *)
(***************************************************************************)
\* the slots of a session that are open
OpenSlots(d) ==
    {I2CHandle(d, n) : n \in {i \in 0..(MAX_I2C_PORTS - 1) :
                                i2cPorts[d][i].hUsbSio = d}}
    \cup {SPIHandle(d, n) : n \in {i \in 0..(MAX_SPI_PORTS - 1) :
                                     spiPorts[d][i].hUsbSio = d}}

\* only the I2C slots are visited
CloseLoop_mut(d) == [k \in 1..maxI2CPorts[d] |-> I2CHandle(d, k - 1)]

\* the slots the two loops of lines 660-673 visit, in their order
CloseLoop(d) ==
    [k \in 1..(maxI2CPorts[d] + maxSPIPorts[d]) |->
        IF k <= maxI2CPorts[d] THEN I2CHandle(d, k - 1)
        ELSE SPIHandle(d, k - 1 - maxI2CPorts[d])]

\* a uint32_t as the bridge lays it out
LE32(n) == [i \in 1..4 |-> (n \div (256 ^ (i - 1))) % 256]

\* an int32_t error code returned through uint32_t
U32Of(x) ==
    IF x >= 0 THEN LE32(x) ELSE [i \in 1..4 |-> 255 - LE32(-x - 1)[i]]

\* LPCUSBSIO_GetNumI2CPorts (lines 725-733); the other capability getters
\* (735-763) differ in the field they return
CallGetNumI2CPorts(t) ==
    /\ th[t].pc = "idle"
    /\ \E hs \in Handles :
         LET r == [th[t] EXCEPT
                     !.op = "LPCUSBSIO_GetNumI2CPorts", !.hs = hs,
                     !.live = InList(hs, devList)]
         IN  IF validHandle(hs) = Fault
             THEN Crash(t, r)
             ELSE IF validHandle(hs) = 0
             THEN /\ g_lastError' = LPCUSBSIO_ERR_BAD_HANDLE
                  /\ th' = [th EXCEPT ![t] = [r EXCEPT
                        !.pc = "done", !.res = LPCUSBSIO_ERR_BAD_HANDLE,
                        !.status = U32Of(LPCUSBSIO_ERR_BAD_HANDLE)]]
                  /\ UNCHANGED nexch
             ELSE /\ th' = [th EXCEPT ![t] = [r EXCEPT
                        !.pc = "done", !.res = LPCUSBSIO_OK,
                        !.status = U32Of(maxI2CPorts[hs])]]
                  /\ UNCHANGED <<g_lastError, nexch>>
    /\ UNCHANGED <<registry, transId, sioMutex, outPacket, wire>>

\* lines 656-658: the handle is checked
CallClose(t) ==
    /\ th[t].pc = "idle"
    /\ \E hs \in Handles :
         LET r == [th[t] EXCEPT
                     !.op = "LPCUSBSIO_Close", !.hs = hs,
                     !.live = InList(hs, devList), !.idx = 0,
                     !.openAtCall = IF InList(hs, devList)
                                    THEN OpenSlots(hs) ELSE {}]
         IN  IF validHandle(hs) = Fault
             THEN Crash(t, r)
             ELSE IF validHandle(hs) = 0
             THEN Reject(t, r, LPCUSBSIO_ERR_BAD_HANDLE)
             ELSE /\ th' = [th EXCEPT ![t] = [r EXCEPT !.pc = "closing",
                                                       !.d = hs]]
                  /\ UNCHANGED <<g_lastError, nexch>>
    /\ UNCHANGED <<registry, transId, sioMutex, outPacket, wire>>

\* lines 660-673: one turn of the loops; an open slot is closed by I2C_Close
\* or SPI_Close, whose result is dropped
CloseStep(t) ==
    LET r == th[t]
        h == CloseLoop(r.d)[r.idx + 1]
        bus == IF h.adr < MAX_I2C_PORTS THEN "I2C" ELSE "SPI"
    IN  /\ r.pc = "closing"
        /\ r.idx < Len(CloseLoop(r.d))
        /\ IF PortAt(h).hUsbSio = r.d
           THEN Enter(t, [r EXCEPT
                  !.h = h, !.portNum = PortAt(h).portNum,
                  !.req = "HID_" \o bus \o "_REQ_DEINIT_PORT",
                  !.outNull = TRUE, !.outData = <<>>, !.outDataLen = 0,
                  !.outLen = 0, !.off = 0, !.inNull = TRUE,
                  !.inLenNull = TRUE, !.acq = FALSE, !.tid = -1,
                  !.sent = <<>>, !.rcvd = <<>>])
           ELSE /\ th' = [th EXCEPT ![t] = [r EXCEPT !.idx = @ + 1]]
                /\ UNCHANGED <<g_lastError, nexch>>
        /\ UNCHANGED <<registry, transId, sioMutex, outPacket, wire>>

\* lines 674-682: the mutex is destroyed and the transport closed
CloseTransport(t) ==
    LET r == th[t]
    IN  /\ r.pc = "closing"
        /\ r.idx = Len(CloseLoop(r.d))
        /\ hidDev' = [hidDev EXCEPT ![r.d] = FALSE]
        /\ th' = [th EXCEPT ![t] = [r EXCEPT !.pc = "free"]]
        /\ UNCHANGED <<g_lastError, devList, transId, maxDataSize, sioMutex,
                       outPacket, i2cPorts, spiPorts, wire, nexch,
                       maxI2CPorts, maxSPIPorts, maxGPIOPorts, fwBuild, devInfoList,
                       g_hidapiEnums, hidInit, released, gpioPins>>

\* the subsystem is shut down as soon as no session is left
CanUnload_mut(list, enums) == list = <<>>

\* LibCleanup (lines 1382-1392): hid_exit is called when neither the cached
\* list nor a cursor is left
CanUnload(list, enums) == list = <<>> /\ enums = <<>>

\* the result of the last port close is returned
CloseResult_mut(res) == res

\* lines 686-687: (void)(res); return LPCUSBSIO_OK;
CloseResult(res) == LPCUSBSIO_OK

\* freeDevice and the return of LPCUSBSIO_Close: the session leaves the
\* list; with the list empty the cached discovery list is freed and
\* LibCleanup called
FreeDevice(t) ==
    LET r == th[t]
        rest == SelectSeq(devList, LAMBDA x : x # r.d)
        unload == rest = <<>> /\ CanUnload(<<>>, g_hidapiEnums)
    IN  /\ r.pc = "free"
        /\ devList' = rest
        /\ devInfoList' = IF rest = <<>> THEN <<>> ELSE devInfoList
        /\ hidInit' = IF unload THEN FALSE ELSE hidInit
        /\ released' =
             [list |-> IF rest = <<>> /\ devInfoList # <<>>
                       THEN Snapshot(rest, "freeDevice") ELSE released.list,
              lib |-> IF unload THEN Snapshot(rest, "freeDevice") ELSE released.lib]
        /\ th' = [th EXCEPT ![t] = [r EXCEPT !.pc = "done",
                                             !.res = CloseResult(r.res),
                                             !.ret = CloseResult(r.res)]]
        /\ UNCHANGED <<g_lastError, transId, maxDataSize, sioMutex, outPacket,
                       i2cPorts, spiPorts, wire, nexch, hidDev, maxI2CPorts,
                       maxSPIPorts, maxGPIOPorts, fwBuild, g_hidapiEnums, gpioPins>>

(***************************************************************************)
(* SIO_SendRequest, lines 320-426                                          *)
(***************************************************************************)
\* one mutex for the whole library
MutexOf_mut(d) == 1

\* &dev->sioMutex: every session has its own mutex
MutexOf(d) == d

\* the lock does not wait
MutexFree_mut(d) == TRUE

\* pthread_mutex_lock returns 0 once the mutex is free
MutexFree(d) == sioMutex[MutexOf(d)] = NoThread

\* the counter is not advanced
NextTransId_mut(x) == x

\* the counter is advanced by two
NextTransIdBy2_mut(x) == (x + 2) % 256

\* line 333: dev->transId++ on a uint8_t
NextTransId(x) == (x + 1) % 256

\* lines 326-337: take the guard, stamp the header
Lock(t) ==
    LET r == th[t]
        d == r.d
    IN  /\ r.pc = "lock"
        /\ d # NullDev
        /\ MutexFree(d)
        /\ sioMutex' = [sioMutex EXCEPT ![MutexOf(d)] = t]
        /\ g_lastError' = LPCUSBSIO_OK
        /\ outPacket' = [outPacket EXCEPT ![d] =
              [@ EXCEPT !.transId = transId[d], !.sesId = r.portNum,
                        !.req = r.req,
                        !.transfer_len = HID_SIO_CALC_TRANSFER_LEN(r.outLen),
                        !.packet_num = 0]]
        /\ transId' = [transId EXCEPT ![d] = NextTransId(@)]
        /\ th' = [th EXCEPT ![t] = [r EXCEPT !.pc = "write", !.acq = TRUE,
                      !.tid = transId[d],
                      !.overlap = \E u \in Threads \ {t} :
                                     th[u].pc \in {"write", "read", "unlock"}
                                        /\ th[u].d # d]]
        /\ UNCHANGED <<registry, wire, nexch>>

\* lines 326-328 with dev = NULL, the back-reference of a closed slot:
\* pthread_mutex_lock reads the mutex at an address next to NULL
LockNull(t) ==
    LET r == th[t]
    IN  /\ r.pc = "lock"
        /\ r.d = NullDev
        /\ th' = [th EXCEPT ![t] = [r EXCEPT !.pc = "fault", !.res = Fault]]
        /\ UNCHANGED <<registry, g_lastError, transId, sioMutex, outPacket,
                       wire, nexch>>

\* lines 326-328: the lock call itself fails
LockFail(t) ==
    LET r == th[t]
    IN  /\ r.pc = "lock"
        /\ r.d # NullDev
        /\ g_lastError' = LPCUSBSIO_ERR_SYNCHRONIZATION
        /\ th' = [th EXCEPT ![t] = Finish(r, LPCUSBSIO_ERR_SYNCHRONIZATION)]
        /\ UNCHANGED <<registry, transId, sioMutex, outPacket, wire, nexch>>

Push(w, ev) == <<w[2], ev>>

\* the bridge takes a port-value request: new = (old | set) & ~clear
DeviceReceives(pins, frame, res) ==
    IF res > 0 /\ frame.req = "HID_GPIO_REQ_PORT_VALUE"
          /\ frame.sesId \in GpioPorts
    THEN [pins EXCEPT ![frame.sesId] =
            AndNot32(Or32(@, SubSeq(frame.data, 1, 4)),
                     SubSeq(frame.data, 5, 8))]
    ELSE pins

\* the sequence number stays as it is
NextPacketNum_mut(n) == n

\* line 358: pOut->packet_num++
NextPacketNum(n) == n + 1

\* lines 338-368: one turn of the write loop; after the last turn *inLen = 0
Write(t, Results) ==
    LET r == th[t]
        d == r.d
        oneTx == OneTx(r.outLen)
        frame == [outPacket[d] EXCEPT
                    !.packet_len = oneTx + HID_SIO_PACKET_HEADER_SZ,
                    !.data = Body(r.outData, r.off, oneTx)]
        outLen == r.outLen - oneTx
    IN  /\ r.pc = "write"
        /\ \E res \in Results :
             LET more == WriteMore(res, outLen)
                 pc == IF more THEN "write"
                       ELSE IF ReadMore(res, TRUE) THEN "read" ELSE "unlock"
             IN  /\ th' = [th EXCEPT ![t] = [r EXCEPT
                      !.pc = pc, !.res = res, !.outLen = outLen,
                      !.off = @ + oneTx,
                      !.inLen = IF ~more /\ ~r.inLenNull THEN 0 ELSE @,
                      !.sent = Append(@, [frame |-> frame, res |-> res])]]
                 /\ wire' = [wire EXCEPT ![d] = Push(@,
                      [thr |-> t, tid |-> r.tid, kind |-> "w",
                       num |-> frame.packet_num,
                       first |-> Len(r.sent) = 0, last |-> pc = "unlock"])]
                 /\ gpioPins' = [gpioPins EXCEPT ![d] =
                                    DeviceReceives(@, frame, res)]
        /\ outPacket' = [outPacket EXCEPT ![d] =
              [frame EXCEPT !.packet_num = NextPacketNum(@)]]
        /\ UNCHANGED <<library, g_lastError, transId, sioMutex, nexch>>

\* the timeout ends the loop without an error code
OnTimeout_mut(r) == [r EXCEPT !.pc = "unlock", !.res = 0]

\* lines 409-413: hid_read_timeout returned 0
OnTimeout(r) == [r EXCEPT !.pc = "unlock", !.res = LPCUSBSIO_ERR_TIMEOUT]

\* lines 369-414: one turn of the read loop on what hid_read_timeout returned
ReadStep(r, rr, pOut) ==
    LET pIn == rr.frame
    IN  IF rr.n > 0
        THEN IF Discard(pIn, pOut)
             THEN [r EXCEPT !.pc = "read", !.res = rr.n]
             ELSE IF pIn.resp = HID_SIO_RES_OK
             THEN LET a == IF r.inLenNull THEN r
                           ELSE [r EXCEPT
                                   !.inData = Accumulate(@, pIn),
                                   !.inLen = @ + InBytes(pIn)]
                  IN  IF Completed(pIn)
                      THEN [a EXCEPT !.pc = "unlock", !.res = LPCUSBSIO_OK]
                      ELSE [a EXCEPT !.pc = "read", !.res = rr.n]
             ELSE [r EXCEPT !.pc = "unlock", !.res = ConvertResp(pIn.resp)]
        ELSE IF rr.n = 0
        THEN OnTimeout(r)
        ELSE [r EXCEPT !.pc = "unlock", !.res = rr.n]

\* Results: what the transport may deliver to the exchange; of the reads of
\* one exchange at most cap - 1 leave it unfinished
Read(t, Results, cap) ==
    LET r == th[t]
        d == r.d
    IN  /\ r.pc = "read"
        /\ \E rr \in Results :
             LET r2 == ReadStep(r, rr, outPacket[d])
             IN  /\ r2.pc = "unlock" \/ Len(r.rcvd) + 1 < cap
                 /\ th' = [th EXCEPT ![t] = [r2 EXCEPT !.rcvd = Append(@, rr)]]
                 /\ wire' = [wire EXCEPT ![d] = Push(@,
                      [thr |-> t, tid |-> r.tid, kind |-> "r",
                       num |-> Len(r.rcvd), first |-> FALSE,
                       last |-> r2.pc = "unlock"])]
        /\ UNCHANGED <<registry, g_lastError, transId, sioMutex, outPacket,
                       nexch>>

\* one turn of the read loop as the code runs it: the loop has no count of
\* its turns and no deadline of its own, every hid_read_timeout call waits
\* LPCUSBSIO_READ_TMO anew; of the reads only the last is remembered, and
\* the parity of their number
Poll(t, Results) ==
    LET r == th[t]
        d == r.d
    IN  /\ r.pc = "read"
        /\ \E rr \in Results :
             LET r2 == ReadStep(r, rr, outPacket[d])
             IN  /\ th' = [th EXCEPT ![t] = [r2 EXCEPT !.rcvd = <<rr>>]]
                 /\ wire' = [wire EXCEPT ![d] = Push(@,
                      [thr |-> t, tid |-> r.tid, kind |-> "r",
                       num |-> 1 - (wire[d][2].num % 2), first |-> FALSE,
                       last |-> r2.pc = "unlock"])]
        /\ UNCHANGED <<registry, g_lastError, transId, sioMutex, outPacket,
                       nexch>>

\* a uint32_t read from four bytes
U32(b) == b[1] + 256 * b[2] + 65536 * b[3] + 16777216 * b[4]

\* the slot is claimed without its number
ClaimedPort_mut(dev, portNum) == [hUsbSio |-> dev, portNum |-> 0]

\* lines 789-790 and 1023-1024: the slot of an opened port
ClaimedPort(dev, portNum) == [hUsbSio |-> dev, portNum |-> portNum]

\* the slot a port handle points to is cleared (lines 809-810, 1048-1049)
ClearSlot(h) ==
    /\ i2cPorts' = IF h.adr < MAX_I2C_PORTS
                   THEN [i2cPorts EXCEPT ![h.dev][h.adr] = ClosedPort]
                   ELSE i2cPorts
    /\ spiPorts' = IF h.adr < MAX_I2C_PORTS THEN spiPorts
                   ELSE [spiPorts EXCEPT
                           ![h.dev][h.adr - MAX_I2C_PORTS] = ClosedPort]

\* I2C_Close and SPI_Close clear the slot when the exchange returned OK
ClosesSlot(r, res) ==
    r.op \in {"I2C_Close", "SPI_Close", "LPCUSBSIO_Close"}
        /\ res = LPCUSBSIO_OK

\* the slot is claimed whatever the init-port exchange returned
OpensSlot_mut(r, bus, res) == r.op = bus \o "_Open"

\* lines 788 and 1022: if (res == LPCUSBSIO_OK) the slot is claimed
OpensSlot(r, bus, res) == r.op = bus \o "_Open" /\ res = LPCUSBSIO_OK

\* i2cPorts[n] with n at or above MAX_I2C_PORTS is the memory of
\* spiPorts[n - MAX_I2C_PORTS], the table that follows in LPCUSBSIO_Ctrl_t.
\* what the operation writes into the session once the engine has returned:
\* I2C_Open 789-793, SPI_Open 1023-1027, I2C_Close 808-811, SPI_Close
\* 1047-1050, LPCUSBSIO_Open 614-634
Settle(r, res) ==
    /\ IF OpensSlot(r, "I2C", res) /\ r.portNum < MAX_I2C_PORTS
       THEN /\ i2cPorts' = [i2cPorts EXCEPT ![r.d][r.portNum] =
                              ClaimedPort(r.d, r.portNum)]
            /\ UNCHANGED spiPorts
       ELSE IF OpensSlot(r, "I2C", res)
       THEN /\ spiPorts' = [spiPorts EXCEPT
                              ![r.d][r.portNum - MAX_I2C_PORTS] =
                                 ClaimedPort(r.d, r.portNum)]
            /\ UNCHANGED i2cPorts
       ELSE IF OpensSlot(r, "SPI", res)
       THEN /\ spiPorts' = [spiPorts EXCEPT ![r.d][r.portNum] =
                              ClaimedPort(r.d, r.portNum)]
            /\ UNCHANGED i2cPorts
       ELSE IF ClosesSlot(r, res)
       THEN ClearSlot(r.h)
       ELSE UNCHANGED <<i2cPorts, spiPorts>>
    /\ IF r.op = "LPCUSBSIO_Open" /\ res = LPCUSBSIO_OK /\ r.inLen >= 12
       THEN /\ maxI2CPorts' = [maxI2CPorts EXCEPT ![r.d] = r.inData[1]]
            /\ maxSPIPorts' = [maxSPIPorts EXCEPT ![r.d] = r.inData[2]]
            /\ maxGPIOPorts' = [maxGPIOPorts EXCEPT ![r.d] = r.inData[3]]
            /\ maxDataSize' = [maxDataSize EXCEPT ![r.d] =
                                 U32(SubSeq(r.inData, 5, 8))]
       ELSE UNCHANGED <<maxI2CPorts, maxSPIPorts, maxGPIOPorts, maxDataSize>>
    /\ fwBuild' = IF r.op # "LPCUSBSIO_Open" THEN fwBuild
                  ELSE IF res # LPCUSBSIO_OK
                  THEN [fwBuild EXCEPT ![r.d] = g_fwInitVer]
                  ELSE IF r.inLen >= 12
                  THEN [fwBuild EXCEPT ![r.d] = FwString(r.inData)]
                  ELSE fwBuild
    /\ UNCHANGED <<devList, hidDev, devInfoList, g_hidapiEnums, hidInit,
                   released, gpioPins>>

\* the guard is released on success only
Unlock_mut(t) ==
    LET r == th[t]
    IN  /\ r.pc = "unlock"
        /\ sioMutex' = IF r.res = LPCUSBSIO_OK
                       THEN [sioMutex EXCEPT ![MutexOf(r.d)] = NoThread]
                       ELSE sioMutex
        /\ g_lastError' = r.res
        /\ th' = [th EXCEPT ![t] = Finish(r, r.res)]
        /\ Settle(r, r.res)
        /\ UNCHANGED <<transId, outPacket, wire, nexch>>

\* lines 415-426: release the guard and return; the bus operation hands the
\* reply to its caller
Unlock(t) ==
    LET r == th[t]
    IN  /\ r.pc = "unlock"
        /\ sioMutex' = [sioMutex EXCEPT ![MutexOf(r.d)] = NoThread]
        /\ g_lastError' = r.res
        /\ th' = [th EXCEPT ![t] = Finish(r, r.res)]
        /\ Settle(r, r.res)
        /\ UNCHANGED <<transId, outPacket, wire, nexch>>

\* the calls whose outcome the next call of the thread is compared with
Remembered ==
    GpioCmds \cup {"I2C_Open", "SPI_Open", "I2C_Close", "SPI_Close",
                   "LPCUSBSIO_Close"}

\* the caller takes the result; the thread is free for its next call
Return(t) ==
    /\ th[t].pc = "done"
    /\ th' = [th EXCEPT ![t] = [IdleThread EXCEPT
                !.afterTmo = (th[t].ret = LPCUSBSIO_ERR_TIMEOUT),
                !.prev = IF th[t].op \in Remembered
                         THEN [op |-> th[t].op, d |-> th[t].d,
                               port |-> th[t].portNum, pin |-> th[t].pin,
                               ret |-> th[t].ret, h |-> th[t].h]
                         ELSE NoPrev]]
    /\ UNCHANGED <<registry, g_lastError, transId, sioMutex, outPacket, wire,
                   nexch>>

(***************************************************************************)
(* The engine under two threads: the sessions are open, port 0 of each bus *)
(* is open                                                                 *)
(***************************************************************************)
\* the device-info reply: two I2C ports, one SPI port, one GPIO port, the
\* data size, the firmware version
InfoReply == <<2, 1, 1, 0>> \o LE32(MaxPayload) \o <<1, 0, 1, 0>>

\* the sessions of list are open with port 0 of each bus open, every one
\* may start budget exchanges, and the data size they negotiated is size
Opened(list, budget, size) ==
    /\ g_lastError = LPCUSBSIO_OK
    /\ devList = list
    /\ transId \in {f \in [Devs -> StartIds] :
                       \A d \in Devs : ~InList(d, list) => f[d] = 0}
    /\ maxDataSize = [d \in Devs |-> IF InList(d, list) THEN size ELSE 0]
    /\ sioMutex = [d \in Devs |-> NoThread]
    /\ outPacket = [d \in Devs |-> ZeroPacket]
    /\ i2cPorts = [d \in Devs |-> [i \in 0..(MAX_I2C_PORTS - 1) |->
                     IF i = 0 /\ InList(d, list)
                     THEN [hUsbSio |-> d, portNum |-> 0]
                     ELSE ClosedPort]]
    /\ spiPorts = [d \in Devs |-> [i \in 0..(MAX_SPI_PORTS - 1) |->
                     IF i = 0 /\ InList(d, list)
                     THEN [hUsbSio |-> d, portNum |-> 0]
                     ELSE ClosedPort]]
    /\ th = [t \in Threads |-> IdleThread]
    /\ wire = [d \in Devs |-> <<NoEvent, NoEvent>>]
    /\ nexch = [d \in Devs |-> IF InList(d, list) THEN budget ELSE 0]
    /\ hidDev = [d \in Devs |-> InList(d, list)]
    /\ maxI2CPorts = [d \in Devs |-> IF InList(d, list) THEN 2 ELSE 0]
    /\ maxSPIPorts = [d \in Devs |-> IF InList(d, list) THEN 1 ELSE 0]
    /\ maxGPIOPorts = [d \in Devs |-> IF InList(d, list) THEN 1 ELSE 0]
    /\ fwBuild = [d \in Devs |-> IF InList(d, list) THEN FwString(InfoReply)
                                ELSE NoString]
    /\ devInfoList = list
    /\ g_hidapiEnums = <<>>
    /\ hidInit = (list # <<>>)
    /\ released = NoRelease
    /\ gpioPins = [d \in Devs |-> [p \in GpioPorts |-> Zero32]]

Init == Opened(<<1>>, MaxExch, MaxPayload)

\* any frame the device may send, at the session's own pace
Device(r) == ReadResults(r.tid, r.portNum, ReplyLens, ErrResps)

\* a device that answers with short replies and one error status
PlainDevice(r) == ReadResults(r.tid, r.portNum, {2}, {18})

\* direct calls of the two-thread model: a request with a reply, a request
\* without payload and reply (a payload without data when n > 0), a reply
\* length without destination
PlainShapes ==
    {<<FALSE, FALSE, FALSE>>, <<TRUE, TRUE, TRUE>>, <<FALSE, TRUE, FALSE>>}

Next ==
    \E t \in Threads :
        \/ CallSendRequest(t, RawLens, PlainShapes)
        \/ CallReset(t)
        \/ Lock(t)
        \/ LockFail(t)
        \/ Write(t, WriteResults)
        \/ Read(t, PlainDevice(th[t]), MaxReads)
        \/ Unlock(t)
        \/ Return(t)

Spec == Init /\ [][Next]_vars

(***************************************************************************)
(* One thread, every bus operation, every answer of the device             *)
(***************************************************************************)
NextExchange ==
    \/ CallSendRequest("t1", RawLens, Shapes)
    \/ CallI2CDeviceRead("t1", ReadSizes, {80}, {FALSE})
    \/ CallSPITransfer("t1")
    \/ CallReset("t1")
    \/ Lock("t1")
    \/ LockFail("t1")
    \/ Write("t1", WriteResults)
    \/ Read("t1", Device(th["t1"]), MaxReads)
    \/ Unlock("t1")
    \/ Return("t1")

SpecExchange == Init /\ [][NextExchange]_vars

(***************************************************************************)
(* The frame codec alone: every frame the engine writes comes back as the  *)
(* reply, in order, with status OK                                         *)
(***************************************************************************)
Echo(f) == [f EXCEPT !.resp = HID_SIO_RES_OK]

Loopback(r) ==
    IF Len(r.rcvd) < Len(r.sent)
    THEN {[n |-> HID_SIO_PACKET_SZ + 1,
           frame |-> Echo(r.sent[Len(r.rcvd) + 1].frame)]}
    ELSE {}

NextCodec ==
    \/ CallSendRequest("t1", 0..MaxPayload, {<<FALSE, FALSE, FALSE>>})
    \/ Lock("t1")
    \/ Write("t1", {HID_SIO_PACKET_SZ + 1})
    \/ Read("t1", Loopback(th["t1"]), NumFrames(MaxPayload) + 1)
    \/ Unlock("t1")

SpecCodec == Init /\ [][NextCodec]_vars

(***************************************************************************)
(* The write loop alone: I2C_DeviceWrite with every buffer size and a      *)
(* request without payload, every write succeeds, the device acknowledges  *)
(***************************************************************************)
InitFraming == Opened(<<1>>, 1, MaxWrite)

\* the bridge acknowledges with a status-only frame
Acknowledge(r) ==
    {[n |-> HID_SIO_PACKET_SZ + 1,
      frame |-> ReplyFrame(r.tid, r.portNum, HID_SIO_RES_OK, 0, 0)]}

NextFraming ==
    \/ CallI2CDeviceWrite("t1", 0..MaxWrite, {80}, {FALSE}, {TRUE})
    \/ CallReset("t1")
    \/ Lock("t1")
    \/ Write("t1", {HID_SIO_PACKET_SZ + 1})
    \/ Read("t1", Acknowledge(th["t1"]), 1)
    \/ Unlock("t1")

SpecFraming == InitFraming /\ [][NextFraming]_vars

(***************************************************************************)
(* Ports of an open session are opened and closed by one thread, against   *)
(* a bridge that answers or stays silent                                   *)
(***************************************************************************)
\* exchanges the session may start on its ports
MaxPortExch == 3

\* a reply that fits one frame and carries bytes
DataFrame(tid, ses, resp, bytes) ==
    [transId |-> tid, sesId |-> ses, req |-> "0", resp |-> resp,
     transfer_len |-> HID_SIO_CALC_TRANSFER_LEN(Len(bytes)),
     packet_num |-> 0,
     packet_len |-> Len(bytes) + HID_SIO_PACKET_HEADER_SZ,
     data |-> [i \in 1..HID_SIO_PACKET_DATA_SZ |->
                 IF i <= Len(bytes) THEN bytes[i] ELSE 0]]

\* what the bridge answers to the request of r: the device information, the
\* pins of a GPIO port, or the bare status
Answer(r) ==
    IF r.req = "HID_SIO_REQ_DEV_INFO"
    THEN DataFrame(r.tid, r.portNum, HID_SIO_RES_OK, InfoReply)
    ELSE IF r.req = "HID_GPIO_REQ_PORT_VALUE" /\ r.portNum \in GpioPorts
    THEN DataFrame(r.tid, r.portNum, HID_SIO_RES_OK, gpioPins[r.d][r.portNum])
    ELSE DataFrame(r.tid, r.portNum, HID_SIO_RES_OK, <<>>)

\* one hid_read_timeout call against that bridge: its answer, or nothing
\* within the timeout
Bridge(r) ==
    {[n |-> 0, frame |-> ZeroPacket],
     [n |-> HID_SIO_PACKET_SZ + 1, frame |-> Answer(r)]}

\* a bridge that may also answer with an error status, and a transport whose
\* read may fail
FaultyBridge(r) ==
    Bridge(r)
    \cup {[n |-> -1, frame |-> ZeroPacket]}
    \cup {[n |-> HID_SIO_PACKET_SZ + 1,
           frame |-> DataFrame(r.tid, r.portNum, e, <<>>)] : e \in {18}}

\* the library is loaded; nothing is discovered or open
Loaded(budget) ==
    /\ g_lastError = LPCUSBSIO_OK
    /\ devList = <<>>
    /\ transId = [d \in Devs |-> 0]
    /\ maxDataSize = [d \in Devs |-> 0]
    /\ sioMutex = [d \in Devs |-> NoThread]
    /\ outPacket = [d \in Devs |-> ZeroPacket]
    /\ i2cPorts = [d \in Devs |-> [i \in 0..(MAX_I2C_PORTS - 1) |-> ClosedPort]]
    /\ spiPorts = [d \in Devs |-> [i \in 0..(MAX_SPI_PORTS - 1) |-> ClosedPort]]
    /\ th = [t \in Threads |-> IdleThread]
    /\ wire = [d \in Devs |-> <<NoEvent, NoEvent>>]
    /\ nexch = [d \in Devs |-> IF d = 1 THEN budget ELSE 1]
    /\ hidDev = [d \in Devs |-> FALSE]
    /\ maxI2CPorts = [d \in Devs |-> 0]
    /\ maxSPIPorts = [d \in Devs |-> 0]
    /\ maxGPIOPorts = [d \in Devs |-> 0]
    /\ fwBuild = [d \in Devs |-> NoString]
    /\ devInfoList = <<>>
    /\ g_hidapiEnums = <<>>
    /\ hidInit = FALSE
    /\ released = NoRelease
    /\ gpioPins = [d \in Devs |-> [p \in GpioPorts |-> Zero32]]

InitPorts == Opened(<<1>>, MaxPortExch, MaxPayload)

NextPorts ==
    \/ CallPortOpen("t1", {0, 1, 2}, BOOLEAN)
    \/ CallPortClose("t1", {0, 1, MAX_SPI_PORTS})
    \/ Lock("t1")
    \/ LockNull("t1")
    \/ Write("t1", {65})
    \/ Read("t1", Bridge(th["t1"]), 1)
    \/ Unlock("t1")
    \/ Return("t1")

SpecPorts == InitPorts /\ [][NextPorts]_vars

(***************************************************************************)
(* A session with its ports open is closed; session handles of every kind  *)
(* are passed                                                              *)
(***************************************************************************)
\* exchanges the session may start
MaxCloseExch == 3

InitSessions == Opened(<<1>>, MaxCloseExch, MaxPayload)

NextSessions ==
    \/ CallClose("t1")
    \/ CloseStep("t1")
    \/ CloseTransport("t1")
    \/ FreeDevice("t1")
    \/ CallPortOpen("t1", {0, 1}, {FALSE})
    \/ CallGetNumI2CPorts("t1")
    \/ Lock("t1")
    \/ Write("t1", {-1, HID_SIO_PACKET_SZ + 1})
    \/ Read("t1", FaultyBridge(th["t1"]), 1)
    \/ Unlock("t1")
    \/ Return("t1")

SpecSessions == InitSessions /\ [][NextSessions]_vars

(***************************************************************************)
(* Discovery, sessions and cursors from the loaded library on              *)
(***************************************************************************)
\* exchanges the first device may start
MaxOpenExch == 2

InitRegistry == Loaded(MaxOpenExch)

NextRegistry ==
    \/ CallGetNumPorts("t1")
    \/ CallOpen("t1")
    \/ CallClose("t1")
    \/ CloseStep("t1")
    \/ CloseTransport("t1")
    \/ FreeDevice("t1")
    \/ CallEnumerate("t1")
    \/ CallEnumerateFree("t1")
    \/ Lock("t1")
    \/ Write("t1", {65})
    \/ Read("t1", Bridge(th["t1"]), 1)
    \/ Unlock("t1")
    \/ Return("t1")

SpecRegistry == InitRegistry /\ [][NextRegistry]_vars

(***************************************************************************)
(* Two sessions, two threads: each thread resets ports of either session   *)
(***************************************************************************)
\* exchanges each session may start
MaxTwoExch == 1

InitTwoSessions == Opened(<<2, 1>>, MaxTwoExch, MaxPayload)

NextTwoSessions ==
    \E t \in Threads :
        \/ CallReset(t)
        \/ Lock(t)
        \/ Write(t, {65})
        \/ Read(t, PlainDevice(th[t]), 2)
        \/ Unlock(t)
        \/ Return(t)

SpecTwoSessions == InitTwoSessions /\ [][NextTwoSessions]_vars

(***************************************************************************)
(* The I2C transfers with arguments of every kind                          *)
(***************************************************************************)
\* exchanges the session may start
MaxI2CExch == 1

\* lengths: none, a short one, one above the negotiated size
I2CSizes == {0, 2, MaxPayload + 1}

\* slave addresses: a 7-bit one and the first that is not
I2CAddrs == {80, 128}

\* a device that answers with empty and short replies and one error status
I2CDevice(r) == ReadResults(r.tid, r.portNum, {0, 2}, {18})

InitI2C == Opened(<<1>>, MaxI2CExch, MaxPayload)

NextI2C ==
    \/ CallI2CDeviceRead("t1", I2CSizes, I2CAddrs, BOOLEAN)
    \/ CallI2CDeviceWrite("t1", I2CSizes, I2CAddrs, BOOLEAN, BOOLEAN)
    \/ CallI2CFastXfer("t1", I2CSizes, I2CSizes, I2CAddrs, BOOLEAN)
    \/ Lock("t1")
    \/ Write("t1", {65})
    \/ Read("t1", I2CDevice(th["t1"]), 2)
    \/ Unlock("t1")
    \/ Return("t1")

SpecI2C == InitI2C /\ [][NextI2C]_vars

(***************************************************************************)
(* Pins of a GPIO port are set, cleared and read                           *)
(***************************************************************************)
\* exchanges the session may start
MaxGpioExch == 3

\* pins: the first, one inside the first byte, the last
GpioPins == {0, 3, 31}

InitGPIO == Opened(<<1>>, MaxGpioExch, MaxPayload)

NextGPIO ==
    \/ CallGpioPin("t1", GpioPins)
    \/ Lock("t1")
    \/ Write("t1", {65})
    \/ Read("t1", Bridge(th["t1"]), 1)
    \/ Unlock("t1")
    \/ Return("t1")

SpecGPIO == InitGPIO /\ [][NextGPIO]_vars

(***************************************************************************)
(* The engine with its read loop unbounded, under fair scheduling of the   *)
(* calling thread; the device answers as it likes                          *)
(***************************************************************************)
\* exchanges the session may start
MaxLiveExch == 2

InitLive == Opened(<<1>>, MaxLiveExch, MaxPayload)

NextLive ==
    \/ CallReset("t1")
    \/ Lock("t1")
    \/ Write("t1", WriteResults)
    \/ Poll("t1", PlainDevice(th["t1"]))
    \/ Unlock("t1")
    \/ Return("t1")

\* the calling thread runs on: the lock is free, hid_write and
\* hid_read_timeout return, the unlock is reached
SpecLive ==
    /\ InitLive /\ [][NextLive]_vars
    /\ WF_vars(Lock("t1"))
    /\ WF_vars(Write("t1", WriteResults))
    /\ WF_vars(Poll("t1", PlainDevice(th["t1"])))
    /\ WF_vars(Unlock("t1"))

(***************************************************************************)
(* Two threads open and close sessions: g_Ctrl.devList is read and written *)
(* without a lock, so the insertion of LPCUSBSIO_Open is two steps          *)
(***************************************************************************)
\* device-info exchanges each device may see
MaxRaceExch == 1

\* LPCUSBSIO_GetNumPorts has found the bridges among the devices of enum;
\* nothing is open
Discovered(enum, budget) ==
    /\ g_lastError = LPCUSBSIO_OK
    /\ devList = <<>>
    /\ transId = [d \in Devs |-> 0]
    /\ maxDataSize = [d \in Devs |-> 0]
    /\ sioMutex = [d \in Devs |-> NoThread]
    /\ outPacket = [d \in Devs |-> ZeroPacket]
    /\ i2cPorts = [d \in Devs |-> [i \in 0..(MAX_I2C_PORTS - 1) |-> ClosedPort]]
    /\ spiPorts = [d \in Devs |-> [i \in 0..(MAX_SPI_PORTS - 1) |-> ClosedPort]]
    /\ th = [t \in Threads |-> IdleThread]
    /\ wire = [d \in Devs |-> <<NoEvent, NoEvent>>]
    /\ nexch = [d \in Devs |-> budget]
    /\ hidDev = [d \in Devs |-> FALSE]
    /\ maxI2CPorts = [d \in Devs |-> 0]
    /\ maxSPIPorts = [d \in Devs |-> 0]
    /\ maxGPIOPorts = [d \in Devs |-> 0]
    /\ fwBuild = [d \in Devs |-> NoString]
    /\ devInfoList = KeepSio(enum)
    /\ g_hidapiEnums = <<>>
    /\ hidInit = TRUE
    /\ released = NoRelease
    /\ gpioPins = [d \in Devs |-> [p \in GpioPorts |-> Zero32]]

InitRace == Discovered(<<1, 3, 2>>, MaxRaceExch)

\* lines 565-586: the transport is opened, the session allocated and
\* zeroed, and the head of the list read into dev->next
OpenLink(t) ==
    /\ th[t].pc = "idle"
    /\ \E index \in {0, 1} :
         LET d == GetDevAtIndex(index)
         IN  /\ d # NullDev
             /\ ~hidDev[d]
             /\ nexch[d] > 0
             /\ nexch' = [nexch EXCEPT ![d] = @ - 1]
             /\ hidDev' = [hidDev EXCEPT ![d] = TRUE]
             /\ transId' = [transId EXCEPT ![d] = 0]
             /\ maxDataSize' = [maxDataSize EXCEPT ![d] = 0]
             /\ maxI2CPorts' = [maxI2CPorts EXCEPT ![d] = 0]
             /\ maxSPIPorts' = [maxSPIPorts EXCEPT ![d] = 0]
             /\ maxGPIOPorts' = [maxGPIOPorts EXCEPT ![d] = 0]
             /\ fwBuild' = [fwBuild EXCEPT ![d] = NoString]
             /\ outPacket' = [outPacket EXCEPT ![d] = ZeroPacket]
             /\ i2cPorts' = [i2cPorts EXCEPT ![d] =
                               [i \in 0..(MAX_I2C_PORTS - 1) |-> ClosedPort]]
             /\ spiPorts' = [spiPorts EXCEPT ![d] =
                               [i \in 0..(MAX_SPI_PORTS - 1) |-> ClosedPort]]
             /\ th' = [th EXCEPT ![t] = [th[t] EXCEPT
                   !.op = "LPCUSBSIO_Open", !.pc = "insert", !.hs = d,
                   !.d = d, !.idx = index, !.cap = Len(devInfoList),
                   !.next = devList]]
    /\ g_lastError' = LPCUSBSIO_OK
    /\ UNCHANGED <<devList, sioMutex, wire, devInfoList, g_hidapiEnums,
                   hidInit, released, gpioPins>>

\* lines 587-611: the session becomes the head of the list, its mutex is
\* created and the device-info exchange entered
OpenInsert(t) ==
    LET r == th[t]
    IN  /\ r.pc = "insert"
        /\ devList' = <<r.d>> \o r.next
        /\ sioMutex' = [sioMutex EXCEPT ![r.d] = NoThread]
        /\ th' = [th EXCEPT ![t] = [r EXCEPT
              !.pc = "lock", !.portNum = 0, !.req = "HID_SIO_REQ_DEV_INFO",
              !.outNull = TRUE, !.outData = <<>>, !.outDataLen = 0,
              !.outLen = 0, !.inNull = FALSE, !.inLenNull = FALSE]]
        /\ UNCHANGED <<g_lastError, transId, maxDataSize, outPacket, i2cPorts,
                       spiPorts, wire, nexch, hidDev, maxI2CPorts,
                       maxSPIPorts, maxGPIOPorts, fwBuild, devInfoList, g_hidapiEnums,
                       hidInit, released, gpioPins>>

\* LPCUSBSIO_Close with a handle LPCUSBSIO_Open has returned, or one that
\* is no handle: not the session another thread is still opening
CloseReturned(t) ==
    /\ CallClose(t)
    /\ \A u \in Threads \ {t} :
          th[u].pc \in {"idle", "done"} \/ th[u].hs # th'[t].hs

NextRace ==
    \E t \in Threads :
        \/ OpenLink(t)
        \/ OpenInsert(t)
        \/ CloseReturned(t)
        \/ CloseStep(t)
        \/ CloseTransport(t)
        \/ FreeDevice(t)
        \/ Lock(t)
        \/ Write(t, {HID_SIO_PACKET_SZ + 1})
        \/ Read(t, Bridge(th[t]), 1)
        \/ Unlock(t)
        \/ Return(t)

SpecRace == InitRace /\ [][NextRace]_vars

(***************************************************************************)
(* One thread opens and closes the two bridges; the transport and the      *)
(* bridge may fail during the device-info exchange                         *)
(***************************************************************************)
NextOpen ==
    \/ CallOpen("t1")
    \/ CallClose("t1")
    \/ CloseStep("t1")
    \/ CloseTransport("t1")
    \/ FreeDevice("t1")
    \/ Lock("t1")
    \/ Write("t1", {-1, HID_SIO_PACKET_SZ + 1})
    \/ Read("t1", FaultyBridge(th["t1"]), 1)
    \/ Unlock("t1")
    \/ Return("t1")

SpecOpen == InitRace /\ [][NextOpen]_vars

(***************************************************************************)
(* A bridge that reports more I2C ports than the session has slots         *)
(***************************************************************************)
\* exchanges each session may start
MaxCapsExch == 3

\* the device-info reply of a bridge with one I2C port more than
\* MAX_I2C_PORTS
WideInfoReply ==
    <<MAX_I2C_PORTS + 1, 1, 1, 0>> \o LE32(MaxPayload) \o <<1, 0, 1, 0>>

\* one hid_read_timeout call against a bridge of either kind
WideBridge(r) ==
    Bridge(r)
    \cup {[n |-> HID_SIO_PACKET_SZ + 1,
           frame |-> DataFrame(r.tid, r.portNum, HID_SIO_RES_OK, info)] :
             info \in IF r.req = "HID_SIO_REQ_DEV_INFO"
                      THEN {WideInfoReply} ELSE {}}

InitCaps == Discovered(<<3, 1>>, MaxCapsExch)

NextCaps ==
    \/ CallOpen("t1")
    \/ CallPortOpen("t1", {0, MAX_I2C_PORTS}, {FALSE})
    \/ CallClose("t1")
    \/ CloseStep("t1")
    \/ CloseTransport("t1")
    \/ FreeDevice("t1")
    \/ Lock("t1")
    \/ Write("t1", {HID_SIO_PACKET_SZ + 1})
    \/ Read("t1", WideBridge(th["t1"]), 1)
    \/ Unlock("t1")
    \/ Return("t1")

SpecCaps == InitCaps /\ [][NextCaps]_vars

(***************************************************************************)
(* One session, two threads: one resets its ports while the other closes   *)
(* it.  LPCUSBSIO_Close (649-688) takes no guard of its own: it destroys    *)
(* sioMutex and closes the transport whatever the other thread is doing.   *)
(***************************************************************************)
\* exchanges the session may start: the reset and the two deinit requests
MaxTearExch == 3

InitTeardown == Opened(<<1>>, MaxTearExch, MaxPayload)

\* the thread is inside SIO_SendRequest with a session whose mutex is
\* destroyed and whose transport is closed, or which is freed
OnDestroyed(r) ==
    /\ r.pc \in {"lock", "write", "read", "unlock"}
    /\ r.d # NullDev
    /\ ~hidDev[r.d] \/ ~InList(r.d, devList)

\* pthread_mutex_lock, hid_write, hid_read_timeout and pthread_mutex_unlock
\* on a destroyed mutex, a closed transport or freed memory are undefined:
\* the process may be killed, or go on as the engine's actions say
UseDestroyed(t) ==
    /\ OnDestroyed(th[t])
    /\ Crash(t, th[t])
    /\ UNCHANGED <<registry, transId, sioMutex, outPacket, wire>>

NextTeardown ==
    \/ CallReset("t1")
    \/ CallClose("t2")
    \/ CloseStep("t2")
    \/ CloseTransport("t2")
    \/ FreeDevice("t2")
    \/ \E t \in Threads :
          \/ Lock(t)
          \/ Write(t, {-1, HID_SIO_PACKET_SZ + 1})
          \/ Read(t, Bridge(th[t]), 1)
          \/ Unlock(t)
          \/ UseDestroyed(t)
          \/ Return(t)

SpecTeardown == InitTeardown /\ [][NextTeardown]_vars

(***************************************************************************)
(* One thread opens ports 0 and 1 of either bus of a session whose ports 0 *)
(* are open; the write may fail, the bridge may stay silent or refuse      *)
(***************************************************************************)
\* init-port exchanges the session may start
MaxInitExch == 2

InitPortInit == Opened(<<1>>, MaxInitExch, MaxPayload)

NextPortInit ==
    \/ CallPortOpen("t1", {0, 1}, {FALSE})
    \/ Lock("t1")
    \/ Write("t1", {-1, HID_SIO_PACKET_SZ + 1})
    \/ Read("t1", FaultyBridge(th["t1"]), 1)
    \/ Unlock("t1")
    \/ Return("t1")

SpecPortInit == InitPortInit /\ [][NextPortInit]_vars

(***************************************************************************)
(* One session runs more exchanges than the 8-bit transaction id has       *)
(* values.  The bridge answers the first of them too late: that exchange   *)
(* ends on the timeout and its reply frame reaches hid_read_timeout during *)
(* a later exchange.                                                       *)
(***************************************************************************)
\* exchanges the session may start: one more than the id has values
MaxStaleExch == 257

InitStale == Opened(<<1>>, MaxStaleExch, MaxPayload)

\* the number of the exchange the session runs, counted from 1
Ordinal(d) == MaxStaleExch - nexch[d]

\* the id the first exchange was stamped with: line 333 advances the id by
\* one with every exchange
FirstTid(r) == (r.tid + 512 - (Ordinal(r.d) - 1)) % 256

\* one hid_read_timeout call: nothing during the first exchange; later the
\* answer to the request, or the late reply frame of the first exchange.
\* seq is the number of the exchange the frame answers.
StaleBridge(r) ==
    IF Ordinal(r.d) = 1
    THEN {[n |-> 0, frame |-> ZeroPacket, seq |-> 0]}
    ELSE {[n |-> HID_SIO_PACKET_SZ + 1, frame |-> Answer(r),
           seq |-> Ordinal(r.d)],
          [n |-> HID_SIO_PACKET_SZ + 1,
           frame |-> DataFrame(FirstTid(r), r.portNum, HID_SIO_RES_OK, <<>>),
           seq |-> 1]}

NextStale ==
    \/ CallReset("t1")
    \/ Lock("t1")
    \/ Write("t1", {HID_SIO_PACKET_SZ + 1})
    \/ Read("t1", StaleBridge(th["t1"]), 2)
    \/ Unlock("t1")
    \/ Return("t1")

SpecStale == InitStale /\ [][NextStale]_vars

TypeOK ==
    /\ \A d \in Devs : transId[d] \in 0..255
    /\ \A d \in Devs : sioMutex[d] \in Threads \cup {NoThread}


(***************************************************************************)
(* Properties                                                              *)
(***************************************************************************)
\* the thread is between its lock and its unlock
Holds(t) == th[t].pc \in {"write", "read", "unlock"}

\* the thread has returned from the engine or is inside it
Called(t) == th[t].pc # "idle"

\* two transport calls that belong to different exchanges
OtherExchange(p, l) == p.thr # l.thr \/ p.tid # l.tid

\* the reply to request tid: a report with that id
Matching(rr, tid) == rr.n > 0 /\ rr.frame.transId = tid

\* a report that completes the reply to request tid
Completing(rr, tid) ==
    /\ Matching(rr, tid)
    /\ rr.frame.resp = HID_SIO_RES_OK
    /\ rr.frame.packet_num * HID_SIO_PACKET_SZ + rr.frame.packet_len
          = rr.frame.transfer_len

\* the call's arguments are the ones the engine rejects
BadArgs(r) == (r.outDataLen > 0 /\ r.outNull) \/ (~r.inLenNull /\ r.inNull)

Last(q) == q[Len(q)]

\* C1: on one session at most one thread is between lock and unlock, and two
\* successive transport calls of different exchanges are the last call of
\* the first exchange and the first write of the second
C1_TotalOrder ==
    \A d \in Devs :
        /\ Cardinality({t \in Threads : th[t].d = d /\ Holds(t)}) <= 1
        /\ \A t \in Threads : (th[t].d = d /\ Holds(t)) => sioMutex[d] = t
        /\ LET p == wire[d][1]
               l == wire[d][2]
           IN  (p.thr # NoThread /\ OtherExchange(p, l))
                   => (p.last /\ l.first /\ l.kind = "w")

\* C1 witness: a thread waits for the guard while the other thread has
\* written both frames of its request and reads the reply
C1_Contention ==
    \E t, u \in Threads :
        /\ t # u
        /\ th[t].pc = "lock"
        /\ th[u].pc = "read"
        /\ th[u].d = th[t].d
        /\ Len(th[u].sent) = 2

\* frames of one request leave in sequence, no frame of another in between
FramesInSequence(p, l) ==
    /\ (l.kind = "w" /\ l.num > 0)
          => (~OtherExchange(p, l) /\ p.kind = "w" /\ p.num = l.num - 1)
    /\ (l.kind = "w" /\ l.num = 0 /\ p.thr # NoThread)
          => (OtherExchange(p, l) /\ p.last)

\* C2 as stated: the id of each transaction is greater than the id of the
\* transaction before it, and frames of two transactions are not mixed
C2_StrictlyIncreasing ==
    \A d \in Devs :
        LET p == wire[d][1]
            l == wire[d][2]
        IN  /\ (p.thr # NoThread /\ OtherExchange(p, l)) => l.tid > p.tid
            /\ FramesInSequence(p, l)

\* C2 amended: the id of each transaction is the id of the transaction
\* before it plus one modulo 256, and frames of two transactions are not
\* mixed
C2_NextIdMod256 ==
    \A d \in Devs :
        LET p == wire[d][1]
            l == wire[d][2]
        IN  /\ (p.thr # NoThread /\ OtherExchange(p, l))
                  => l.tid = (p.tid + 1) % 256
            /\ FramesInSequence(p, l)

\* C2 witness: the second frame of a request of one thread goes out right
\* after the other thread's transaction, whose id is the one before
C2_TwoThreads ==
    \E d \in Devs, t \in Threads :
        /\ th[t].d = d
        /\ th[t].pc = "read"
        /\ Len(th[t].sent) = 2
        /\ th[t].sent[1].frame.transId = th[t].sent[2].frame.transId
        /\ \E u \in Threads \ {t} :
              /\ th[u].pc = "done"
              /\ th[u].acq
              /\ th[t].tid = (th[u].tid + 1) % 256

\* the thread at the start of its read phase
AtReadStart(r) ==
    [r EXCEPT !.pc = "read", !.res = HID_SIO_PACKET_SZ + 1, !.inData = <<>>,
              !.inLen = IF r.inLenNull THEN @ ELSE 0]

\* the read loop run over the reports q
RECURSIVE Replay(_, _, _)
Replay(r, q, pOut) ==
    IF q = <<>> \/ r.pc # "read" THEN r
    ELSE Replay(ReadStep(r, Head(q), pOut), Tail(q), pOut)

\* C3: a report with another transaction id leaves the exchange in its read
\* loop, and payload, length and result are the ones the read loop yields on
\* the reports without those of another id
C3_MismatchDiscarded ==
    \A t \in Threads :
        LET r == th[t]
            Keep(rr) == rr.n <= 0 \/ rr.frame.transId = r.tid
            kept == SelectSeq(r.rcvd, Keep)
            pOut == [ZeroPacket EXCEPT !.transId = r.tid]
            e == Replay(AtReadStart(r), kept, pOut)
        IN  Len(r.rcvd) > 0 =>
              /\ ~Keep(Last(r.rcvd)) => r.pc = "read"
              /\ r.inData = e.inData
              /\ r.inLen = e.inLen
              /\ r.res = e.res
              /\ r.pc \in {"read", "unlock"} => r.pc = e.pc

\* C3 witness: a late report of the exchange before, then the reply; the
\* caller gets the two bytes of the reply
C3_StaleThenReply ==
    \E t \in Threads :
        LET r == th[t]
        IN  /\ r.pc = "done"
            /\ Len(r.rcvd) = 2
            /\ r.rcvd[1].n > 0
            /\ r.rcvd[1].frame.transId # r.tid
            /\ Completing(r.rcvd[2], r.tid)
            /\ r.res = LPCUSBSIO_OK
            /\ r.inData = <<RespByte(1), RespByte(2)>>

\* C4: once reports were read, the engine returns OK exactly when the last
\* report read is an OK report with the request's id that satisfies the
\* completion identity, and no report before it is one; when the engine
\* returns an error, I2C_DeviceRead and SPI_Transfer return that error and
\* leave the caller's buffer as it was
C4_CompleteOrNothing ==
    \A t \in Threads :
        LET r == th[t]
        IN  /\ Len(r.rcvd) > 0 =>
                 /\ \A i \in 1..(Len(r.rcvd) - 1) : ~Completing(r.rcvd[i], r.tid)
                 /\ r.pc \in {"unlock", "done"} =>
                       (r.res = LPCUSBSIO_OK <=> Completing(Last(r.rcvd), r.tid))
                 /\ r.pc = "read" => ~Completing(Last(r.rcvd), r.tid)
            /\ ( /\ r.pc = "done"
                 /\ r.op \in {"I2C_DeviceRead", "SPI_Transfer"}
                 /\ r.res # LPCUSBSIO_OK )
                 => /\ r.ret = r.res
                    /\ r.ret < 0
                    /\ r.buffer = [i \in 1..r.size |-> UserFill]

\* C4 witness: I2C_DeviceRead got the first frame of a two-frame reply, then
\* the read timed out
C4_PartialThenTimeout ==
    \E t \in Threads :
        LET r == th[t]
        IN  /\ r.pc = "done"
            /\ r.op = "I2C_DeviceRead"
            /\ Len(r.rcvd) = 2
            /\ Matching(r.rcvd[1], r.tid)
            /\ r.rcvd[1].frame.resp = HID_SIO_RES_OK
            /\ r.inLen = HID_SIO_PACKET_DATA_SZ
            /\ r.rcvd[2].n = 0
            /\ r.ret = LPCUSBSIO_ERR_TIMEOUT

IsReset(r) == r.op \in {"I2C_Reset", "SPI_Reset"}

\* C5: a read of zero bytes is the last transport call of its exchange, the
\* exchange returns the Timeout error with the guard released; a reset
\* issued after a call that timed out returns OK when its own reply arrives
C5_TimeoutThenReset ==
    \A t \in Threads :
        LET r == th[t]
        IN  /\ \A i \in 1..Len(r.rcvd) : r.rcvd[i].n = 0 =>
                 /\ i = Len(r.rcvd)
                 /\ r.pc \in {"unlock", "done"}
                 /\ r.res = LPCUSBSIO_ERR_TIMEOUT
                 /\ r.pc = "done" =>
                       (r.ret = LPCUSBSIO_ERR_TIMEOUT /\ sioMutex[r.d] # t)
            /\ ( /\ r.afterTmo
                 /\ IsReset(r)
                 /\ r.pc = "done"
                 /\ Len(r.rcvd) > 0
                 /\ Completing(Last(r.rcvd), r.tid) )
                 => r.ret = LPCUSBSIO_OK

\* C5 witness: the call before timed out, the reset ran its exchange and
\* returned OK
C5_ResetSucceeds ==
    \E t \in Threads :
        LET r == th[t]
        IN  /\ r.afterTmo
            /\ IsReset(r)
            /\ r.pc = "done"
            /\ Len(r.sent) = 1
            /\ Len(r.rcvd) > 0
            /\ r.ret = LPCUSBSIO_OK
            /\ sioMutex[r.d] = NoThread

\* C6: a thread between the first write and the return of the last read
\* holds the guard of its session; a thread that has returned, or has not
\* locked yet, holds no guard; a call with rejected arguments never locked
C6_GuardHeldAndReleased ==
    \A t \in Threads :
        LET r == th[t]
        IN  /\ Holds(t) => sioMutex[r.d] = t
            /\ ~Holds(t) => \A d \in Devs : sioMutex[d] # t
            /\ (Called(t) /\ BadArgs(r)) => (r.pc = "done" /\ ~r.acq)

\* C6 witness: an exchange that discarded a report and then got an error
\* status has returned, and the guard is free
C6_ReleasedAfterError ==
    \E t \in Threads :
        LET r == th[t]
        IN  /\ r.pc = "done"
            /\ r.acq
            /\ Len(r.rcvd) = 2
            /\ r.rcvd[1].n > 0
            /\ r.rcvd[1].frame.transId # r.tid
            /\ r.res < 0
            /\ sioMutex[r.d] = NoThread

\* C7: a report with the request's id and a status other than OK is the last
\* report read; the engine returns -(status + 0x10), which is negative for
\* every status byte but OK
C7_DeviceErrorEndsExchange ==
    /\ \A s \in 1..255 : ConvertResp(s) = -(s + 16) /\ ConvertResp(s) < 0
    /\ \A t \in Threads :
          LET r == th[t]
          IN  \A i \in 1..Len(r.rcvd) :
                (Matching(r.rcvd[i], r.tid)
                    /\ r.rcvd[i].frame.resp # HID_SIO_RES_OK)
                => /\ i = Len(r.rcvd)
                   /\ r.pc \in {"unlock", "done"}
                   /\ r.res = -(r.rcvd[i].frame.resp + 16)
                   /\ r.res < 0
                   /\ r.pc = "done" => r.ret = r.res

\* C7 witness: the device answered with status 255
C7_Status255 ==
    \E t \in Threads :
        LET r == th[t]
        IN  /\ r.pc = "done"
            /\ Len(r.rcvd) > 0
            /\ Matching(Last(r.rcvd), r.tid)
            /\ Last(r.rcvd).frame.resp = 255
            /\ r.ret = -271

\* C8: a failed hid_write is the last transport call of its exchange: no
\* frame follows, nothing is read, the engine returns the HID library error
C8_WriteFailureAborts ==
    \A t \in Threads :
        LET r == th[t]
        IN  \A i \in 1..Len(r.sent) : r.sent[i].res < 0 =>
              /\ i = Len(r.sent)
              /\ r.pc \in {"unlock", "done"}
              /\ r.rcvd = <<>>
              /\ r.res = LPCUSBSIO_ERR_HID_LIB
              /\ r.pc = "done" => r.ret = LPCUSBSIO_ERR_HID_LIB

\* C8 witness: the first frame of a two-frame request failed
C8_FirstFrameFails ==
    \E t \in Threads :
        LET r == th[t]
        IN  /\ r.pc = "done"
            /\ r.outDataLen > HID_SIO_PACKET_DATA_SZ
            /\ Len(r.sent) = 1
            /\ r.sent[1].res < 0
            /\ r.outLen > 0

\* C9: a call whose payload length is not zero while the payload is absent,
\* or whose reply length is asked while the destination is absent, returns
\* InvalidParameter: nothing written or read, no lock, no transaction id
C9_InvalidParameterBeforeIO ==
    \A t \in Threads :
        LET r == th[t]
        IN  (Called(t) /\ r.op = "SIO_SendRequest" /\ BadArgs(r)) =>
              /\ r.pc = "done"
              /\ r.ret = LPCUSBSIO_ERR_INVALID_PARAM
              /\ r.sent = <<>>
              /\ r.rcvd = <<>>
              /\ ~r.acq
              /\ r.tid = -1
              /\ sioMutex[r.d] # t

\* C9 witness: both kinds of rejected call happen: a payload length without
\* payload, here with a reply length without destination
C9_Rejected ==
    \E t \in Threads :
        LET r == th[t]
        IN  /\ r.pc = "done"
            /\ r.op = "SIO_SendRequest"
            /\ ~r.outNull
            /\ ~r.inLenNull
            /\ r.inNull
            /\ r.ret = LPCUSBSIO_ERR_INVALID_PARAM

FramesOf(L) ==
    IF L = 0 THEN 1
    ELSE (L + HID_SIO_PACKET_DATA_SZ - 1) \div HID_SIO_PACKET_DATA_SZ

\* payload bytes frame i (from 1) of a payload of L bytes carries
CarriedBy(L, i) ==
    IF i < FramesOf(L) THEN HID_SIO_PACKET_DATA_SZ
    ELSE L - (FramesOf(L) - 1) * HID_SIO_PACKET_DATA_SZ

\* C11: when every write succeeds a request of L payload bytes (for
\* I2C_DeviceWrite the parameter head and the buffer) leaves as exactly
\* max(1, ceil(L / capacity)) frames numbered from 0; every frame but the
\* last carries a full capacity, the last the remainder, each frame's packet
\* length is what it carries plus the header and its body is that part of
\* the payload, zero padded; the transfer length is the same in all
C11_Framing ==
    LET r == th["t1"]
        L == r.outDataLen
        n == Len(r.sent)
    IN  /\ r.op = "I2C_DeviceWrite" /\ r.acq
              => L = r.size + I2C_RW_PARAMS_SZ
        /\ r.pc = "write" => n < FramesOf(L)
        /\ (r.acq /\ r.pc \in {"read", "unlock", "done"}) => n = FramesOf(L)
        /\ \A i \in 1..n :
              LET f == r.sent[i].frame
                  c == CarriedBy(L, i)
              IN  /\ f.packet_num = i - 1
                  /\ f.packet_len = c + HID_SIO_PACKET_HEADER_SZ
                  /\ f.transfer_len = r.sent[1].frame.transfer_len
                  /\ f.transId = r.tid
                  /\ \A k \in 1..HID_SIO_PACKET_DATA_SZ :
                        f.data[k] =
                          IF k <= c
                          THEN r.outData[(i - 1) * HID_SIO_PACKET_DATA_SZ + k]
                          ELSE 0

\* C11 witness: I2C_DeviceWrite whose request is 300 bytes has returned; it
\* wrote five frames and the fifth, numbered 4, carries a full capacity
C11_ThreeHundred ==
    LET r == th["t1"]
    IN  /\ r.pc = "done"
        /\ r.op = "I2C_DeviceWrite"
        /\ r.outDataLen = 5 * HID_SIO_PACKET_DATA_SZ
        /\ Len(r.sent) = 5
        /\ r.sent[5].frame.packet_num = 4
        /\ r.sent[5].frame.packet_len = HID_SIO_PACKET_SZ
        /\ r.ret = r.size

(***************************************************************************)
(* C12: closing a port twice                                               *)
(***************************************************************************)
PortCloses == {"I2C_Close", "SPI_Close"}

PortOpens == {"I2C_Open", "SPI_Open"}

\* the call of r closes the handle the call before it closed with success
ClosedAgain(r) ==
    /\ r.op \in PortCloses
    /\ r.prev.op = r.op
    /\ r.prev.h = r.h
    /\ r.prev.ret = LPCUSBSIO_OK

\* C12: I2C_Close or SPI_Close issued a second time on a handle the first
\* call closed with success returns a defined error, and writes and reads
\* nothing on the transport.
C12_SecondCloseIsAnError ==
    \A t \in Threads :
        LET r == th[t]
        IN  ClosedAgain(r) =>
               /\ r.pc # "fault"
               /\ r.sent = <<>> /\ r.rcvd = <<>>
               /\ r.pc = "done" => r.ret < 0

(***************************************************************************)
(* C13: the port number of I2C_Open and SPI_Open                           *)
(***************************************************************************)
\* the call of r opens a port of a live session
OpensPort(r) == r.op \in PortOpens /\ r.live

\* C13: on a live session I2C_Open and SPI_Open return a handle only for a
\* port number below the session's count for the bus; a port number at or
\* above the count ends with INVALID_PARAM, no handle and no exchange; the
\* handles of two port numbers differ.
C13_PortNumberInRange ==
    \A t \in Threads :
        LET r == th[t]
        IN  OpensPort(r) =>
              /\ (r.pc = "done" /\ r.h # NoHandle) =>
                     /\ r.portNum < r.cap
                     /\ r.ret = LPCUSBSIO_OK
                     /\ PortAt(r.h) = [hUsbSio |-> r.hs, portNum |-> r.portNum]
              /\ r.portNum >= r.cap =>
                     /\ r.pc = "done"
                     /\ r.ret = LPCUSBSIO_ERR_INVALID_PARAM
                     /\ g_lastError = LPCUSBSIO_ERR_INVALID_PARAM
                     /\ r.h = NoHandle
                     /\ ~r.acq /\ r.sent = <<>> /\ r.rcvd = <<>>
              /\ (/\ r.pc = "done" /\ r.h # NoHandle
                  /\ r.prev.op = r.op /\ r.prev.ret = LPCUSBSIO_OK
                  /\ r.prev.h # NoHandle
                  /\ r.prev.port # r.portNum) => r.h # r.prev.h

\* port 1 is opened after port 0 of the same bus, and the port one past the
\* last is refused
C13_TwoPortsOpened ==
    \E t \in Threads :
        LET r == th[t]
        IN  /\ OpensPort(r) /\ r.op = "I2C_Open"
            /\ r.pc = "done" /\ r.h = I2CHandle(1, 1)
            /\ r.prev.op = "I2C_Open" /\ r.prev.h = I2CHandle(1, 0)
            /\ i2cPorts[1][1].hUsbSio = 1

(***************************************************************************)
(* C14: session handles that are not in the list                           *)
(***************************************************************************)
\* the operations of the model that take a session handle and answer a bad
\* one with BAD_HANDLE
SessionOps == {"LPCUSBSIO_Close", "LPCUSBSIO_GetNumI2CPorts"}

\* C14: LPCUSBSIO_Close and the capability getters given a handle that is
\* not in the list of live sessions (never opened, closed, or NULL) return
\* BAD_HANDLE and exchange nothing with a device; given a live handle they
\* do not return BAD_HANDLE.
C14_OnlyLiveHandles ==
    \A t \in Threads :
        LET r == th[t]
        IN  r.op \in SessionOps =>
              /\ ~r.live =>
                    /\ r.pc = "done"
                    /\ r.res = LPCUSBSIO_ERR_BAD_HANDLE
                    /\ g_lastError = LPCUSBSIO_ERR_BAD_HANDLE
                    /\ ~r.acq /\ r.sent = <<>> /\ r.rcvd = <<>>
              /\ r.live => r.res # LPCUSBSIO_ERR_BAD_HANDLE

(***************************************************************************)
(* C15: the order of LPCUSBSIO_Close                                       *)
(***************************************************************************)
\* the request that closes the slot of a handle
DeinitOf(h) ==
    IF h.adr < MAX_I2C_PORTS THEN "HID_I2C_REQ_DEINIT_PORT"
    ELSE "HID_SPI_REQ_DEINIT_PORT"

\* the call of r closes a live session
ClosesSession(r) == r.op = "LPCUSBSIO_Close" /\ r.live

\* C15: LPCUSBSIO_Close sends a deinit request for every I2C and SPI port
\* open when it is called, all of them while the transport is open; the
\* transport is closed while the session is still in the list, and nothing
\* is written to or read from a closed transport.
C15_CloseCascade ==
    \A t \in Threads :
        LET r == th[t]
        IN  /\ r.pc \in {"write", "read", "unlock"} => hidDev[r.d]
            /\ ClosesSession(r) =>
                  /\ r.pc \in {"closing", "lock", "write", "read", "unlock"}
                        => hidDev[r.d] /\ InList(r.d, devList)
                  /\ r.pc \in {"free", "done"} =>
                        /\ ~hidDev[r.d]
                        /\ \A h \in r.openAtCall :
                              \E i \in 1..Len(r.deinit) :
                                 /\ r.deinit[i].h = h
                                 /\ r.deinit[i].req = DeinitOf(h)
                                 /\ r.deinit[i].sent = 1
                  /\ r.pc = "free" => InList(r.d, devList)
                  /\ r.pc = "done" => ~InList(r.d, devList)

\* a session with an I2C port and an SPI port open has been closed
C15_TwoPortsClosed ==
    \E t \in Threads :
        LET r == th[t]
        IN  /\ ClosesSession(r) /\ r.pc = "done"
            /\ Cardinality(r.openAtCall) = 2
            /\ Len(r.deinit) = 2
            /\ r.deinit[1].h = I2CHandle(r.d, 0)
            /\ r.deinit[2].h = SPIHandle(r.d, 0)

(***************************************************************************)
(* C16: when the cached list and the HID library are released              *)
(***************************************************************************)
\* a release happened with nothing live
AllEmpty(x) == x.done => x.sessions = 0 /\ x.cursors = 0

\* C16 as stated: the cached discovery list and the HID library are
\* released only at moments when no session is open and no cursor is
\* outstanding.
C16_ReleasedOnlyWhenAllEmpty ==
    AllEmpty(released.list) /\ AllEmpty(released.lib)

\* C16 amended: hid_exit is called only when no session is open, no cursor
\* is outstanding and no list is cached, so the library is never down while
\* one of them exists; the cached list is freed by the close of the last
\* session whatever cursors exist, and by every LPCUSBSIO_GetNumPorts.
C16_LibraryReleasedWhenAllEmpty ==
    /\ AllEmpty(released.lib)
    /\ released.lib.done => released.lib.by = "freeDevice"
    /\ (released.list.done /\ released.list.by = "freeDevice")
          => released.list.sessions = 0
    /\ ~hidInit => devList = <<>> /\ g_hidapiEnums = <<>> /\ devInfoList = <<>>

\* the close of the last session freed the cached list and shut the
\* library down
C16_LibraryShutDown ==
    /\ released.lib.done /\ ~hidInit
    /\ \E t \in Threads :
          /\ th[t].op = "LPCUSBSIO_Close" /\ th[t].pc = "done"
          /\ th[t].live
    /\ released.list.done /\ released.list.by = "freeDevice"

(***************************************************************************)
(* C17: sessions do not wait for each other                                *)
(***************************************************************************)
\* thread u is inside an exchange on a session other than the one of t
OnOtherSession(t, u) ==
    /\ u # t
    /\ th[u].pc \in {"write", "read", "unlock"}
    /\ th[u].d # th[t].d

\* C17: while an exchange is in flight on one session, a thread that is to
\* start an exchange on another session can take that session's guard, and
\* the steps of its exchange stay possible up to the release of the guard.
C17_SessionsIndependent ==
    \A t \in Threads, u \in Threads :
        OnOtherSession(t, u) =>
            /\ th[t].pc = "lock" => ENABLED Lock(t)
            /\ th[t].pc = "write" => ENABLED Write(t, {65})
            /\ th[t].pc = "read" => ENABLED Read(t, PlainDevice(th[t]), 2)
            /\ th[t].pc = "unlock" => ENABLED Unlock(t)

\* an exchange took its guard and completed while the other thread was
\* waiting in a read on the other session
C17_CompletedDuringRead ==
    \E t \in Threads, u \in Threads :
        /\ th[t].overlap /\ th[t].pc = "done"
        /\ th[t].ret = LPCUSBSIO_OK
        /\ th[u].pc = "read" /\ th[u].rcvd = <<>>
        /\ th[u].d # th[t].d /\ sioMutex[MutexOf(th[u].d)] = u

(***************************************************************************)
(* C18: the values the bus operations return                               *)
(***************************************************************************)
BusOps == {"I2C_DeviceRead", "SPI_Transfer", "I2C_Reset", "SPI_Reset"}

\* the magnitudes of the library, firmware and bridge error codes
ErrorRanges == (1..15) \cup (16..31) \cup (32..47)

\* C18: every value a bus operation returns is non-negative or the negative
\* of a value in [0x01,0x0F], [0x10,0x1F] or [0x20,0x2F], whatever status
\* byte the device answers with.
C18_ReturnInErrorRanges ==
    \A t \in Threads :
        LET r == th[t]
        IN  (r.op \in BusOps /\ r.pc = "done") =>
               r.ret >= 0 \/ -r.ret \in ErrorRanges

(***************************************************************************)
(* C19: the argument checks of the I2C transfers                           *)
(***************************************************************************)
I2CTransfers == {"I2C_DeviceRead", "I2C_DeviceWrite", "I2C_FastXfer"}

\* the arguments of the call of r: an address above 127, a length above the
\* session's data size, or a length without a buffer
BadTransferArgs(r) ==
    LET max == maxDataSize[r.h.dev]
    IN  \/ r.addr > 127
        \/ r.size > max
        \/ (r.size > 0 /\ r.bufNull)
        \/ (r.op = "I2C_FastXfer" /\ (r.txSz > max \/ (r.txSz > 0 /\ r.txNull)))

\* C19: I2C_DeviceRead, I2C_DeviceWrite and I2C_FastXfer on an open port,
\* called with a slave address above 127, a length above the session's data
\* size or a length without a buffer, return INVALID_PARAM; no frame is
\* written or read and the transaction counter keeps its value.
C19_BadArgumentsRejected ==
    \A t \in Threads :
        LET r == th[t]
        IN  (r.op \in I2CTransfers /\ r.live /\ BadTransferArgs(r)) =>
               /\ r.pc = "done"
               /\ r.ret = LPCUSBSIO_ERR_INVALID_PARAM
               /\ g_lastError = LPCUSBSIO_ERR_INVALID_PARAM
               /\ ~r.acq /\ r.sent = <<>> /\ r.rcvd = <<>>
               /\ transId[r.h.dev] = r.id0

\* a transfer whose only fault is the address 128 was refused
C19_Address128 ==
    \E t \in Threads :
        LET r == th[t]
        IN  /\ r.op = "I2C_FastXfer" /\ r.live /\ r.pc = "done"
            /\ r.addr = 128 /\ r.size = 2 /\ r.txSz = 2
            /\ ~r.bufNull /\ ~r.txNull
            /\ r.ret = LPCUSBSIO_ERR_INVALID_PARAM

(***************************************************************************)
(* C20: a pin reads back as it was written                                 *)
(***************************************************************************)
\* bit pin of a 32-bit value as the bridge lays it out
LE32Bit(pin) == [i \in 1..4 |-> IF i = (pin \div 8) + 1 THEN 2 ^ (pin % 8) ELSE 0]

\* the call of r reads the pin the call before it wrote with op, and both
\* succeeded
ReadsBack(r, op) ==
    /\ r.op = "GPIO_GetPin" /\ r.pc = "done" /\ r.ret >= 0
    /\ r.prev.op = op /\ r.prev.ret >= 0
    /\ r.prev.d = r.d /\ r.prev.port = r.portNum /\ r.prev.pin = r.pin

\* C20: against a bridge that applies new = (old | set) & ~clear and answers
\* with the new value, GPIO_GetPin returns 1 after a successful GPIO_SetPin
\* of the same pin and 0 after a successful GPIO_ClearPin, whatever was done
\* to other pins before; the bridge holds the pin accordingly.
C20_PinReadsBack ==
    \A t \in Threads :
        LET r == th[t]
        IN  /\ ReadsBack(r, "GPIO_SetPin") =>
                  /\ r.ret = 1
                  /\ Test32(gpioPins[r.d][r.portNum], LE32Bit(r.pin))
            /\ ReadsBack(r, "GPIO_ClearPin") =>
                  /\ r.ret = 0
                  /\ ~Test32(gpioPins[r.d][r.portNum], LE32Bit(r.pin))

\* pin 31 was set and read back as 1 while pin 0 was set before
C20_Pin31ReadBack ==
    \E t \in Threads :
        LET r == th[t]
        IN  /\ ReadsBack(r, "GPIO_SetPin") /\ r.pin = 31 /\ r.ret = 1
            /\ gpioPins[r.d][r.portNum] = <<1, 0, 0, 128>>

(***************************************************************************)
(* C21: every call of the engine returns                                   *)
(***************************************************************************)
\* C21: every call that entered the engine returns with the guard released,
\* whatever the device answers, also when every read is answered within the
\* timeout by a frame of another transaction.
C21_EveryCallReturns ==
    \A t \in Threads :
        (th[t].pc = "lock") ~>
            (th[t].pc = "done" /\ \A d \in Devs : sioMutex[d] # t)

(***************************************************************************)
(* C22: discovery and the index of LPCUSBSIO_Open                          *)
(***************************************************************************)
\* the device's product string begins with one of the two bridge names
BridgeName(dev) ==
    \E name \in {<<"L", "P", "C", "S", "I", "O">>,
                  <<"M", "C", "U", "S", "I", "O">>} :
        /\ Len(Product(dev)) >= 6
        /\ \A i \in 1..6 : Product(dev)[i] = name[i]

\* LPCUSBSIO_Open is called with an index at or above the cached count
OpensBeyond(r) == r.op = "LPCUSBSIO_Open" /\ r.idx >= r.cap

\* C22: LPCUSBSIO_GetNumPorts returns the number of enumerated devices whose
\* product string starts with LPCSIO or MCUSIO and caches those devices in
\* the order of the enumeration; LPCUSBSIO_Open returns a handle only for an
\* index below that count, to the device at that index, and for an index at
\* or above it returns NULL, opens no transport and leaves the sessions as
\* they are.
C22_Discovery ==
    /\ [](\A t \in Threads :
            LET r == th[t]
            IN  /\ (r.op = "LPCUSBSIO_GetNumPorts" /\ r.pc = "done") =>
                      /\ devInfoList = SelectSeq(r.enum, BridgeName)
                      /\ r.ret = Len(devInfoList)
                /\ (r.op = "LPCUSBSIO_Open" /\ r.pc = "done"
                       /\ r.ret # NullDev) =>
                      /\ r.idx < r.cap
                      /\ r.ret = devInfoList[r.idx + 1]
                /\ OpensBeyond(r) =>
                      /\ r.pc = "done" /\ r.ret = NullDev
                      /\ ~r.acq /\ r.sent = <<>>)
    /\ [][\A t \in Threads :
            OpensBeyond(th'[t]) =>
                UNCHANGED <<devList, hidDev, devInfoList, sioMutex, transId>>]_vars

\* three devices were enumerated, the second of them no bridge; two are
\* cached and the session of the second cached one is open
C22_TwoOfThree ==
    /\ devInfoList = <<1, 2>>
    /\ \E t \in Threads :
          LET r == th[t]
          IN  /\ r.op = "LPCUSBSIO_Open" /\ r.pc = "done"
              /\ r.idx = 1 /\ r.ret = 2 /\ InList(2, devList)

(***************************************************************************)
(* C23: the headers of the frames of one request                           *)
(***************************************************************************)
\* C23: the frames written for one request carry the same transaction id,
\* port number, request code and transfer length; they are numbered 0, 1,
\* 2, ... in the order they are written, and the body of a frame is zero
\* beyond the payload it carries.
C23_FramesOfOneRequest ==
    \A t \in Threads :
        LET r == th[t]
        IN  \A i \in 1..Len(r.sent) :
               LET f == r.sent[i].frame
               IN  /\ f.transId = r.tid
                   /\ f.sesId = r.portNum
                   /\ f.req = r.req
                   /\ f.transfer_len = HID_SIO_CALC_TRANSFER_LEN(r.outDataLen)
                   /\ f.packet_num = i - 1
                   /\ \A k \in 1..HID_SIO_PACKET_DATA_SZ :
                         k > f.packet_len - HID_SIO_PACKET_HEADER_SZ
                            => f.data[k] = 0

\* a request of two frames was written while the other thread waits for the
\* session; the second frame carries one byte
C23_TwoFramesOneByte ==
    \E t \in Threads, u \in Threads :
        LET r == th[t]
        IN  /\ r.pc = "unlock" /\ Len(r.sent) = 2
            /\ r.sent[2].frame.packet_len = HID_SIO_PACKET_HEADER_SZ + 1
            /\ r.sent[2].frame.data[1] # 0
            /\ u # t /\ th[u].pc = "lock" /\ th[u].d = r.d

(***************************************************************************)
(* C24: the transaction counter                                            *)
(***************************************************************************)
\* thread t takes the guard of session d in this step
Acquires(t, d) ==
    th[t].pc = "lock" /\ th[t].d = d /\ th'[t].pc = "write"

\* C24: an exchange that takes the guard stamps its frames with the value
\* the counter has at that moment and advances the counter by exactly one
\* modulo 256, whatever the outcome of the exchange; nothing else moves the
\* counter, so two consecutive exchanges on a session never carry the same
\* id.
C24_CounterAdvancesByOne ==
    /\ [](\A t \in Threads :
            LET r == th[t]
            IN  (r.acq /\ r.pc \in {"write", "read", "unlock"})
                    => /\ transId[r.d] = (r.tid + 1) % 256
                       /\ transId[r.d] # r.tid
                       /\ \A i \in 1..Len(r.sent) :
                             r.sent[i].frame.transId = r.tid)
    /\ [][\A d \in Devs :
            IF \E t \in Threads : Acquires(t, d)
            THEN /\ transId'[d] = (transId[d] + 1) % 256
                 /\ \A t \in Threads :
                       Acquires(t, d) => th'[t].tid = transId[d]
            ELSE transId'[d] = transId[d]]_vars

\* an exchange stamped 255 has failed and the counter stands at 0
C24_FailedAt255 ==
    \E t \in Threads :
        LET r == th[t]
        IN  /\ r.pc = "unlock" /\ r.acq
            /\ r.res < 0
            /\ r.tid = 255
            /\ transId[r.d] = 0

(***************************************************************************)
(* C25: what stands behind a return of OK                                  *)
(***************************************************************************)
\* C25: an exchange ends with LPCUSBSIO_OK only after it has received a
\* report that carries its transaction id and the status OK and satisfies
\* the completion identity, whatever hid_write returned.
C25_OkOnlyAfterCompletion ==
    \A t \in Threads :
        LET r == th[t]
        IN  (r.acq /\ r.pc = "unlock" /\ r.res = LPCUSBSIO_OK)
                => \E i \in 1..Len(r.rcvd) : Completing(r.rcvd[i], r.tid)

(***************************************************************************)
(* C26: the slot after I2C_Close and SPI_Close                             *)
(***************************************************************************)
\* C26: once I2C_Close or SPI_Close of an open port has returned, the
\* back-reference of the slot is cleared, whatever the deinit exchange
\* returned.
C26_CloseAlwaysClears ==
    \A t \in Threads :
        LET r == th[t]
        IN  (r.op \in PortCloses /\ r.live /\ r.acq /\ r.pc = "done")
                => PortAt(r.h).hUsbSio = NullDev

(***************************************************************************)
(* C27: what an open slot holds                                            *)
(***************************************************************************)
\* the index of the slot a port handle points to, in its table
SlotIndex(h) ==
    IF h.adr < MAX_I2C_PORTS THEN h.adr ELSE h.adr - MAX_I2C_PORTS

\* the slot is open, and holds its session and its own index
OwnSlot(slot, d, i) ==
    slot.hUsbSio # NullDev => (slot.hUsbSio = d /\ slot.portNum = i)

RejectedAsBad(r) ==
    /\ r.pc = "done" /\ r.ret = LPCUSBSIO_ERR_BAD_HANDLE
    /\ ~r.acq /\ r.sent = <<>> /\ r.rcvd = <<>>

\* C28: a port operation accepts a handle if and only if its address lies
\* within the I2C or the SPI port table of a live session; every other
\* address, the one just past the SPI table included, is answered with
\* BAD_HANDLE before anything is exchanged.
C28_AcceptedIffInTables ==
    \A t \in Threads :
        LET r == th[t]
        IN  r.op \in PortCloses =>
               (RejectedAsBad(r)
                   <=> ~(InList(r.h.dev, devList) /\ InPortTables(r.h)))

(***************************************************************************)
(* C29: LPCUSBSIO_Close with failing deinit exchanges                      *)
(***************************************************************************)
\* C29: LPCUSBSIO_Close of a live session returns LPCUSBSIO_OK with the
\* transport closed and the session out of the list, also when deinit
\* exchanges failed; a failed port close does not keep the ports after it
\* from being closed: every port open at the call got its own exchange.
C29_CloseCompletes ==
    \A t \in Threads :
        LET r == th[t]
        IN  (ClosesSession(r) /\ r.pc = "done") =>
               /\ r.ret = LPCUSBSIO_OK
               /\ ~hidDev[r.d]
               /\ ~InList(r.d, devList)
               /\ Len(r.deinit) = Cardinality(r.openAtCall)
               /\ \A i \in 1..Len(r.deinit) :
                     /\ r.deinit[i].h \in r.openAtCall
                     /\ r.deinit[i].sent = 1
                     /\ \A j \in 1..Len(r.deinit) :
                           r.deinit[j].h = r.deinit[i].h => j = i

\* the session was closed although the deinit exchange of its I2C port
\* timed out and the one of its SPI port failed otherwise
C29_BothDeinitsFailed ==
    \E t \in Threads :
        LET r == th[t]
        IN  /\ ClosesSession(r) /\ r.pc = "done"
            /\ Len(r.deinit) = 2
            /\ r.deinit[1].res = LPCUSBSIO_ERR_TIMEOUT
            /\ r.deinit[2].res < 0
            /\ r.deinit[2].res # LPCUSBSIO_ERR_TIMEOUT
            /\ r.ret = LPCUSBSIO_OK

(***************************************************************************)
(* C30: hid_exit at the release of the last resource                       *)
(***************************************************************************)
\* the call of r has released a session or a cursor
Releases(r) ==
    /\ r.pc = "done"
    /\ \/ r.op = "LPCUSBSIO_Close" /\ r.live
       \/ r.op = "HIDAPI_EnumerateFree" /\ r.ret = 1

\* C30: when a call has released the last resource, so that no session is
\* open and no cursor is outstanding, the HID library is shut down, whether
\* that call was LPCUSBSIO_Close or HIDAPI_EnumerateFree.
C30_ShutDownAtLastRelease ==
    \A t \in Threads :
        (Releases(th[t]) /\ devList = <<>> /\ g_hidapiEnums = <<>>)
            => ~hidInit

(***************************************************************************)
(* C31: the list of sessions under two threads                             *)
(***************************************************************************)
\* no call is under way
Quiet == \A t \in Threads : th[t].pc \in {"idle", "done"}

\* C31: LPCUSBSIO_Open and LPCUSBSIO_Close of two threads do not interleave
\* their updates of the list of sessions: once both have returned, the list
\* holds exactly the sessions that were opened and not closed.
C31_ListHoldsOpenSessions ==
    Quiet => \A d \in Devs : InList(d, devList) <=> hidDev[d]

(***************************************************************************)
(* C32: LPCUSBSIO_Open when the device-info exchange fails                 *)
(***************************************************************************)
\* the call of r is an LPCUSBSIO_Open whose device-info exchange has failed
InfoFailed(r) ==
    r.op = "LPCUSBSIO_Open" /\ r.pc = "done" /\ r.acq /\ r.res < 0

\* C32: when the transport was opened and the device-info exchange fails,
\* LPCUSBSIO_Open returns the session, which is in the list with its
\* transport open, its three port counts and its data size 0, and the text
\* "FW Ver Unavailable" as firmware version.
C32_DegradedSession ==
    \A t \in Threads :
        LET r == th[t]
        IN  InfoFailed(r) =>
               /\ r.ret = r.d /\ r.d # NullDev
               /\ InList(r.d, devList) /\ hidDev[r.d]
               /\ maxI2CPorts[r.d] = 0 /\ maxSPIPorts[r.d] = 0
               /\ maxGPIOPorts[r.d] = 0 /\ maxDataSize[r.d] = 0
               /\ fwBuild[r.d] = <<"FW Ver Unavailable">>

\* the device answered the device-info request with an error status
C32_InfoRefused ==
    \E t \in Threads :
        LET r == th[t]
        IN  /\ InfoFailed(r)
            /\ r.res < LPCUSBSIO_ERR_TIMEOUT
            /\ Len(r.rcvd) = 1 /\ r.rcvd[1].n > 0
            /\ devList = <<r.d>>

(***************************************************************************)
(* C34: the reply and the buffer it is collected in                        *)
(***************************************************************************)
\* C34: the bytes the engine has copied into the caller's reply buffer are
\* never more than the caller allocated, whatever lengths the frames of the
\* device carry and however many frames it sends.
C34_ReplyFitsBuffer ==
    \A t \in Threads :
        LET r == th[t]
        IN  (r.acq /\ ~r.inLenNull) => Len(r.inData) <= InCapacity(r)

(***************************************************************************)
(* C33: what I2C_FastXfer returns                                          *)
(***************************************************************************)
\* the call of r is an I2C_FastXfer whose exchange succeeded with a reply
\* that fits the receive buffer
XferDone(r) ==
    /\ r.op = "I2C_FastXfer" /\ r.pc = "done" /\ r.acq
    /\ r.res = LPCUSBSIO_OK
    /\ Len(r.inData) <= InCapacity(r)

\* C33: after a successful exchange I2C_FastXfer returns the number of bytes
\* of the reply and has copied them to the receive buffer when there are
\* any, and returns txSz when the reply is empty, whatever rxSz was.
C33_FastXferResult ==
    \A t \in Threads :
        LET r == th[t]
        IN  XferDone(r) =>
               /\ r.inLen > 0 =>
                     /\ r.ret = r.inLen
                     /\ SubSeq(r.buffer, 1, r.inLen) = r.inData
               /\ r.inLen = 0 => r.ret = r.txSz

\* two bytes were sent and two asked for, the reply was empty: 2 is returned
\* for the bytes sent
C33_EmptyReply ==
    \E t \in Threads :
        LET r == th[t]
        IN  /\ XferDone(r)
            /\ r.txSz = 2 /\ r.size = 2 /\ r.inLen = 0
            /\ r.ret = 2
            /\ r.buffer = <<UserFill, UserFill>>

(***************************************************************************)
(* C35: the slots I2C_Open, SPI_Open and LPCUSBSIO_Close reach             *)
(***************************************************************************)
\* C35: the slot I2C_Open or SPI_Open claims and the slots the loops of
\* LPCUSBSIO_Close visit lie inside the tables of MAX_I2C_PORTS and
\* MAX_SPI_PORTS slots, whatever port counts the device has reported.
C35_SlotInsideTable ==
    \A t \in Threads :
        LET r == th[t]
        IN  /\ (r.op = "I2C_Open" /\ r.acq) => r.portNum < MAX_I2C_PORTS
            /\ (r.op = "SPI_Open" /\ r.acq) => r.portNum < MAX_SPI_PORTS
            /\ (ClosesSession(r) /\ r.pc = "closing") =>
                   /\ maxI2CPorts[r.d] <= MAX_I2C_PORTS
                   /\ maxSPIPorts[r.d] <= MAX_SPI_PORTS

\* C36: whenever LPCUSBSIO_Open returns no handle, the list of live sessions
\* is the same as before the call and no transport opened during the call is
\* left open
C36_FailedOpenLeavesNothing ==
    [][\A t \in Threads :
          (/\ th[t].pc = "idle"
           /\ th'[t].pc = "done"
           /\ th'[t].op = "LPCUSBSIO_Open"
           /\ th'[t].ret = NullDev)
          => /\ devList' = devList
             /\ hidDev' = hidDev]_vars

\* C37: a session is never torn down while an exchange on it is in flight,
\* or waits for the guard, on another thread
C37_NoTeardownUnderExchange ==
    \A t \in Threads : ~OnDestroyed(th[t])

\* C38: once an operation has returned a negative error code to its caller,
\* LPCUSBSIO_GetLastError (line 767) read next by that caller gives that
\* code, whatever the other thread does on the other session meanwhile
C38_LastErrorIsCallers ==
    \A t \in Threads :
        (th[t].pc = "done" /\ th[t].ret < 0) => g_lastError = th[t].ret

\* C39: when the init-port exchange of I2C_Open or SPI_Open fails, no handle
\* is returned and every slot of both tables, the targeted one included, is
\* left as it was when the call was made
C39_FailedInitKeepsSlots ==
    [][\A t \in Threads :
          (/\ th[t].op \in PortOpens
           /\ th[t].pc \in {"lock", "write", "read", "unlock"}
           /\ ~(th'[t].pc = "done" /\ th'[t].res = LPCUSBSIO_OK))
          => /\ i2cPorts' = i2cPorts
             /\ spiPorts' = spiPorts
             /\ th'[t].pc = "done" => th'[t].h = NoHandle]_vars

\* I2C_Open of port 0, which is open, and of port 1, which is closed, has
\* come back after a timeout, a refusal of the bridge or a failed write
C39_InitFailed ==
    \E t \in Threads :
        /\ th[t].op = "I2C_Open"
        /\ th[t].pc = "done"
        /\ th[t].acq
        /\ th[t].res < 0
        /\ th[t].h = NoHandle
        /\ th[t].prev.op = "I2C_Open"
        /\ th[t].prev.ret < 0
        /\ th[t].prev.port # th[t].portNum
        /\ i2cPorts[th[t].d][0].hUsbSio = th[t].d
        /\ i2cPorts[th[t].d][1] = ClosedPort

\* C40: a frame the read loop does not discard answers the exchange that is
\* running: the reply of an exchange that has ended is never taken for the
\* reply of a later one, however many exchanges lie between the two
C40_NoStaleReplyAccepted ==
    \A t \in Threads :
        \A i \in 1..Len(th[t].rcvd) :
            LET rr == th[t].rcvd[i]
            IN  (rr.n > 0 /\ rr.frame.transId = th[t].tid)
                    => rr.seq = Ordinal(th[t].d)

====
